---- MODULE Spec2Model ----
(***************************************************************************)
(* Source resolution, slot cache and diagnostic aggregation of             *)
(* typst/package-check (src/world.rs, src/check/diagnostics.rs).           *)
(*                                                                         *)
(* Paths are sequences of component names, <<>> being the file-system      *)
(* root.  Byte buffers and texts are sequences of integers.  Every result  *)
(* (FileResult, PackageResult, Option) is a record [tag, val] whose val is *)
(* always a sequence, so that results of different kinds can be compared   *)
(* by tag first.                                                           *)
(***************************************************************************)
EXTENDS Integers, Sequences, FiniteSets, TLC

VARIABLES
    root,              \* SystemWorld.root
    package_override,  \* SystemWorld.package_override
    excluded,          \* SystemWorld.excluded: the relative paths the filter ignores
    slots,             \* SystemWorld.slots: FileId -> FileSlot, domain = inserted keys
    disk,              \* file system: path -> bytes of the file, or Absent
    installed,         \* file system: package -> which of its data/cache directories exist
    pc,                \* "running", or "panicked" once a call has unwound
    nops,              \* number of calls made so far on the context
    nwrites,           \* number of changes made to the file system from outside
    lastOp,            \* history: the most recent call and what it returned
    seen,              \* history: per identifier, what earlier calls returned
    diags,             \* Diagnostics (the receiving set): [errors, warnings]
    merged,            \* history: the arguments of the most recent Diagnostics call
    virtuals,          \* the virtual slots registered: FileId -> [text, line]
    coord,             \* history: the most recent call of the coordinate mapper
    lock,              \* SystemWorld.slots, its mutex: the thread holding it, or 0
    threads,           \* per thread of the compiler: its position in a get
    jobs,              \* per check job of the hook server: its position and findings
    tree,              \* file system: the working trees checked out, by directory
    prov,              \* history: the most recent call of prepare_package
    parse,             \* history: the most recent call of parse_diff_tree_paths
    hook,              \* one webhook delivery: its position and its check runs
    walk,              \* one kebab-case traversal: its call stack and visited set
    cli                \* one run of the check command: its position and output

vars == <<root, package_override, excluded, slots, disk, installed, pc, nops,
          nwrites, lastOp, seen, diags, merged, virtuals, coord, lock, threads,
          jobs, tree, prov, parse, hook, walk, cli>>

worldVars == <<root, package_override, excluded, slots, disk, installed, pc,
               nops, nwrites, lastOp, seen>>

diagVars == <<diags, merged>>

coordVars == <<virtuals, coord>>

threadVars == <<lock, threads>>

jobVars == <<jobs, tree>>

extVars == <<prov, parse, hook, walk, cli>>

-----------------------------------------------------------------------------
(* Bounds of the model. *)

\* Calls (resolve, get_text, get_bytes, exclude) made on one context.
MaxOps == 3

\* Changes of a file's bytes made from outside between calls.
MaxWrites == 1

\* Diagnostics a receiving set may hold when a further call is made on it.
MaxDiags == 3

-----------------------------------------------------------------------------
(* Results. *)

None == [tag |-> "None", val |-> <<>>]

Ok(v) == [tag |-> "Ok", val |-> v]

\* Equality of two results, deciding by the tag first.
SameResult(a, b) == a.tag = b.tag /\ a.val = b.val

\* FileError::AccessDenied
AccessDenied == [tag |-> "AccessDenied", val |-> <<>>]

\* FileError::Other(Some("This file exists but is excluded from your package."))
ExcludedError ==
    [tag |-> "Other",
     val |-> <<"This file exists but is excluded from your package.">>]

\* FileError::NotFound(path), as FileError::from_io builds it
NotFound(path) == [tag |-> "NotFound", val |-> path]

\* FileError::InvalidUtf8, the conversion of a Utf8Error by `?`
InvalidUtf8 == [tag |-> "InvalidUtf8", val |-> <<>>]

\* PackageError::NotFound(spec)
PackageNotFound(spec) ==
    [tag |-> "PackageNotFound", val |-> <<spec.namespace, spec.name, spec.version>>]

\* PackageError::NetworkFailed(..)
NetworkFailed == [tag |-> "NetworkFailed", val |-> <<>>]

\* PackageError::MalformedArchive(..)
MalformedArchive == [tag |-> "MalformedArchive", val |-> <<>>]

\* The unwinding of Result::unwrap on an Err.
Panic(err) == [tag |-> "Panic", val |-> <<err.tag>>]

-----------------------------------------------------------------------------
(* Packages, identifiers and the file-system layout. *)

\* id.package() == None
NoPackage == [namespace |-> "", name |-> "", version |-> ""]

\* The package under test.
PkgP == [namespace |-> "preview", name |-> "foo", version |-> "0.1.0"]

\* Another package of the fetchable namespace.
PkgQ == [namespace |-> "preview", name |-> "bar", version |-> "1.0.0"]

\* A package of a namespace that is not fetched on demand.
PkgL == [namespace |-> "local", name |-> "baz", version |-> "0.2.0"]

Packages == {PkgP, PkgQ, PkgL}

\* The identifiers asked for.  Their virtual paths are normalised as
\* VirtualPath::new leaves them: a ".." only leads.
FileIds ==
    {[package |-> NoPackage, vpath |-> <<"a.typ">>],
     [package |-> NoPackage, vpath |-> <<"..", "a.typ">>],
     [package |-> PkgP, vpath |-> <<"a.typ">>],
     [package |-> PkgP, vpath |-> <<"template", "a.typ">>],
     [package |-> PkgP, vpath |-> <<"..", "a.typ">>],
     [package |-> PkgQ, vpath |-> <<"a.typ">>],
     [package |-> PkgQ, vpath |-> <<"..", "a.typ">>]}

\* <root>/<namespace>/<name>/<version> under the registry checkout <<"r">>
CanonicalDir(spec) == <<"r", spec.namespace, spec.name, spec.version>>

\* dirs::data_dir() and dirs::cache_dir()
DataDir == <<"data">>

CacheDir == <<"cache">>

\* format!("typst/packages/{}/{}/{}", namespace, name, version)
Subdir(spec) == <<"typst", "packages", spec.namespace, spec.name, spec.version>>

NoOverride == [spec |-> NoPackage, dir |-> <<>>]

\* The contexts the program builds: root and package override.
Contexts ==
    {\* check::manifest::check: the package directory, canonical layout
     [root |-> CanonicalDir(PkgP), ov |-> NoOverride],
     \* world_for_template: the template directory, the package overridden
     [root |-> CanonicalDir(PkgP) \o <<"template">>,
      ov |-> [spec |-> PkgP, dir |-> CanonicalDir(PkgP)]],
     \* an override directory equal to the project root
     [root |-> CanonicalDir(PkgP),
      ov |-> [spec |-> PkgP, dir |-> CanonicalDir(PkgP)]],
     \* a checkout relocated under another directory
     [root |-> <<"tmp", "co">>, ov |-> NoOverride]}

\* The exclusion filters a manifest may install, each as the set of the paths
\* (relative to the project root) that Override::matched reports as ignored.
Filters == {{}, {<<"a.typ">>}}

IsPrefix(p, q) == Len(p) <= Len(q) /\ SubSeq(q, 1, Len(p)) = p

\* Path::strip_prefix
StripPrefix(q, p) ==
    IF IsPrefix(p, q) THEN Ok(SubSeq(q, Len(p) + 1, Len(q))) ELSE None

\* Path::parent and Path::file_name; the root <<>> has neither.
Parent(p) == IF Len(p) = 0 THEN None ELSE Ok(SubSeq(p, 1, Len(p) - 1))

FileName(p) == IF Len(p) = 0 THEN None ELSE Ok(<<p[Len(p)]>>)

-----------------------------------------------------------------------------
(* Virtual paths (typst::syntax::VirtualPath, as system_path and            *)
(* Diagnostics::extend use it).                                             *)

Pop(p) == IF Len(p) = 0 THEN p ELSE SubSeq(p, 1, Len(p) - 1)

\* VirtualPath::new: drops ".", resolves ".." against a preceding normal
\* component and keeps a ".." that has none.
RECURSIVE Normalize(_, _)
Normalize(out, comps) ==
    IF comps = <<>> THEN out
    ELSE IF Head(comps) = "." THEN Normalize(out, Tail(comps))
    ELSE IF Head(comps) = ".."
    THEN IF Len(out) > 0 /\ out[Len(out)] # ".."
         THEN Normalize(Pop(out), Tail(comps))
         ELSE Normalize(Append(out, ".."), Tail(comps))
    ELSE Normalize(Append(out, Head(comps)), Tail(comps))

VirtualPathNew(path) == Normalize(<<>>, path)

\* VirtualPath::resolve: pushes each component onto the root; a ".." pops and
\* gives up as soon as the result is shorter than the root.  (It compares
\* string lengths; a path popped below the root is a proper ancestor of it, so
\* the component count decides the same.)
RECURSIVE ResolveFrom(_, _, _)
ResolveFrom(out, comps, rootLen) ==
    IF comps = <<>> THEN Ok(out)
    ELSE IF Head(comps) = ".."
    THEN IF Len(Pop(out)) < rootLen
         THEN None
         ELSE ResolveFrom(Pop(out), Tail(comps), rootLen)
    ELSE ResolveFrom(Append(out, Head(comps)), Tail(comps), rootLen)

\* Path::join of the components, kept as they are.
JoinVpath_Unchecked(vpath, r) == Ok(r \o vpath)

\* id.vpath().resolve(&root).ok_or(FileError::AccessDenied)
JoinVpath(vpath, r) ==
    LET p == ResolveFrom(r, vpath, Len(r))
    IN  IF p.tag = "Ok" THEN p ELSE AccessDenied

-----------------------------------------------------------------------------
(* Package provisioning. *)

\* What a download and unpack can come to: the archive unpacked; the server
\* answering 404; the request failing; the unpack failing and the directory
\* removed ("malformed"); the unpack failing and remove_dir_all failing as
\* well ("stuck"), its error being dropped by `.ok()`.
NetOutcomes == {"ok", "404", "failed", "malformed", "stuck"}

\* download_package: the request, then the unpack into the cache directory.
\* A failed unpack is followed by remove_dir_all, whose own failure is
\* ignored: the directory then stays, with what was unpacked so far
\* ("partial").
DownloadPackage(spec, inst, net) ==
    IF net = "404"
    THEN [res |-> PackageNotFound(spec), inst |-> inst, unpacked |-> FALSE]
    ELSE IF net = "failed"
    THEN [res |-> NetworkFailed, inst |-> inst, unpacked |-> FALSE]
    ELSE IF net = "malformed"
    THEN [res |-> MalformedArchive,
          inst |-> [inst EXCEPT ![spec] = @ \ {"cache", "partial"}],
          unpacked |-> TRUE]
    ELSE IF net = "stuck"
    THEN [res |-> MalformedArchive,
          inst |-> [inst EXCEPT ![spec] = @ \cup {"cache", "partial"}],
          unpacked |-> TRUE]
    ELSE [res |-> Ok(<<>>), inst |-> [inst EXCEPT ![spec] = @ \cup {"cache"}],
          unpacked |-> TRUE]

\* A prepare_package that looks into the cache directory first.
PreparePackage_CacheFirst(spec, inst, net) ==
    IF "cache" \in inst[spec]
    THEN [res |-> Ok(CacheDir \o Subdir(spec)), inst |-> inst, fetched |-> FALSE,
          unpacked |-> FALSE]
    ELSE IF "data" \in inst[spec]
    THEN [res |-> Ok(DataDir \o Subdir(spec)), inst |-> inst, fetched |-> FALSE,
          unpacked |-> FALSE]
    ELSE [res |-> PackageNotFound(spec), inst |-> inst, fetched |-> FALSE,
          unpacked |-> FALSE]

\* prepare_package: the data directory, then the cache directory, then the
\* download for the "preview" namespace.  dirs::data_dir() and
\* dirs::cache_dir() are taken to be set, as they are for a user with a home
\* directory.
PreparePackage(spec, inst, net) ==
    IF "data" \in inst[spec]
    THEN [res |-> Ok(DataDir \o Subdir(spec)), inst |-> inst, fetched |-> FALSE,
          unpacked |-> FALSE]
    ELSE IF "cache" \in inst[spec]
    THEN [res |-> Ok(CacheDir \o Subdir(spec)), inst |-> inst, fetched |-> FALSE,
          unpacked |-> FALSE]
    ELSE IF spec.namespace = "preview"
    THEN LET d == DownloadPackage(spec, inst, net)
         IN  IF d.res.tag # "Ok"
             THEN [res |-> d.res, inst |-> d.inst, fetched |-> TRUE,
                   unpacked |-> d.unpacked]
             ELSE IF "cache" \in d.inst[spec]
             THEN [res |-> Ok(CacheDir \o Subdir(spec)), inst |-> d.inst,
                   fetched |-> TRUE, unpacked |-> d.unpacked]
             ELSE [res |-> PackageNotFound(spec), inst |-> d.inst,
                   fetched |-> TRUE, unpacked |-> d.unpacked]
    ELSE [res |-> PackageNotFound(spec), inst |-> inst, fetched |-> FALSE,
          unpacked |-> FALSE]

-----------------------------------------------------------------------------
(* The path resolver. *)

\* expect_parents: the canonical directory exists, so canonicalize succeeds
\* and leaves the path as it is.
RECURSIVE expect_parents(_, _)
expect_parents(dir, parents) ==
    IF parents = <<>> THEN Ok(dir)
    ELSE LET parent == Parent(dir)
         IN  IF parent.tag = "None" THEN None
             ELSE IF ~SameResult(FileName(parent.val), Ok(<<Head(parents)>>))
             THEN None
             ELSE expect_parents(parent.val, Tail(parents))

\* An exclude closure that reports an excluded file as missing.
ExcludeClosure_NotFound(project_root, excl, file) ==
    IF file.tag = "Ok"
    THEN LET path_in_package == StripPrefix(file.val, project_root)
         IN  IF path_in_package.tag = "Ok" /\ path_in_package.val \in excl
             THEN NotFound(file.val)
             ELSE file
    ELSE file

\* The `exclude` closure of system_path.
ExcludeClosure(project_root, excl, file) ==
    IF file.tag = "Ok"
    THEN LET path_in_package == StripPrefix(file.val, project_root)
         IN  IF path_in_package.tag = "Ok" /\ path_in_package.val \in excl
             THEN ExcludedError
             ELSE file
    ELSE file

\* The override branch without the exclude closure.
OverrideBranch_NoExclude(ov, project_root, excl, id) == JoinVpath(id.vpath, ov.dir)

\* system_path, the branch taken when the identifier's package is the
\* overridden one.
OverrideBranch(ov, project_root, excl, id) ==
    ExcludeClosure(project_root, excl, JoinVpath(id.vpath, ov.dir))

\* A provisioning failure handed on as a FileError instead of unwinding.
Unwrap_Propagate(r) == r

\* Result::unwrap
Unwrap(r) == IF r.tag = "Ok" THEN r ELSE Panic(r)

\* system_path, the root of an identifier that carries a package reference
\* other than the overridden one: expect_parents, or else prepare_package.
PackageRoot(project_root, spec, inst, net) ==
    LET ep == expect_parents(project_root,
                             <<spec.version, spec.name, spec.namespace>>)
    IN  IF ep.tag = "Ok"
        THEN [res |-> Ok(ep.val \o <<spec.namespace, spec.name, spec.version>>),
              inst |-> inst, provisioned |-> FALSE, fetched |-> FALSE]
        ELSE LET pp == PreparePackage(spec, inst, net)
             IN  [res |-> Unwrap(pp.res), inst |-> pp.inst,
                  provisioned |-> TRUE, fetched |-> pp.fetched]

\* system_path.  Besides the result: the file system it leaves, the candidate
\* root it joined onto, whether it called prepare_package and whether that
\* went to the network.
system_path(ov, project_root, excl, id, inst, net) ==
    IF id.package # NoPackage
    THEN IF ov # NoOverride /\ id.package = ov.spec
         THEN [res |-> OverrideBranch(ov, project_root, excl, id), inst |-> inst,
               croot |-> Ok(ov.dir), provisioned |-> FALSE, fetched |-> FALSE]
         ELSE LET pr == PackageRoot(project_root, id.package, inst, net)
              IN  IF pr.res.tag = "Ok"
                  THEN [res |-> ExcludeClosure(project_root, excl,
                                               JoinVpath(id.vpath, pr.res.val)),
                        inst |-> pr.inst, croot |-> pr.res,
                        provisioned |-> pr.provisioned, fetched |-> pr.fetched]
                  ELSE [res |-> pr.res, inst |-> pr.inst, croot |-> None,
                        provisioned |-> pr.provisioned, fetched |-> pr.fetched]
    ELSE [res |-> ExcludeClosure(project_root, excl,
                                 JoinVpath(id.vpath, project_root)),
          inst |-> inst, croot |-> Ok(project_root), provisioned |-> FALSE,
          fetched |-> FALSE]

\* Whether a call of system_path for the identifier reaches the download, so
\* that its outcome matters.
NeedsNet(ov, project_root, id, inst) ==
    /\ id.package # NoPackage
    /\ ~(ov # NoOverride /\ id.package = ov.spec)
    /\ expect_parents(project_root,
                      <<id.package.version, id.package.name,
                        id.package.namespace>>).tag # "Ok"
    /\ inst[id.package] = {}
    /\ id.package.namespace = "preview"

\* The outcomes to draw for a call.
NetChoices(ov, project_root, id, inst) ==
    IF NeedsNet(ov, project_root, id, inst) THEN NetOutcomes ELSE {"ok"}

-----------------------------------------------------------------------------
(* Files and their decoding. *)

\* A path with no file behind it.
Absent == <<-1>>

\* The byte contents used: "a", a byte-order mark followed by "b", and a byte
\* that is not UTF-8.
BytesA == <<97>>

BytesBomB == <<239, 187, 191, 98>>

BytesBad == <<255>>

\* b"\xef\xbb\xbf"
Bom == <<239, 187, 191>>

\* Two byte-order marks followed by "b".
BytesBomBomB == <<239, 187, 191, 239, 187, 191, 98>>

\* The directories an identifier can resolve into.
AllRoots ==
    {c.root : c \in Contexts} \cup {c.ov.dir : c \in Contexts}
        \cup {DataDir \o Subdir(p) : p \in Packages}
        \cup {CacheDir \o Subdir(p) : p \in Packages}

DiskPaths == {r \o v : r \in AllRoots, v \in {<<"a.typ">>, <<"template", "a.typ">>}}

\* The bytes of the file at a path: a file below a package's data or cache
\* directory is there only while that directory is.
FileAt(d, inst, path) ==
    IF \E p \in Packages :
           \/ IsPrefix(DataDir \o Subdir(p), path) /\ "data" \notin inst[p]
           \/ IsPrefix(CacheDir \o Subdir(p), path) /\ "cache" \notin inst[p]
    THEN Absent
    ELSE IF path \in DOMAIN d THEN d[path] ELSE Absent

\* read_from_disk
read_from_disk(path, d, inst) ==
    IF FileAt(d, inst, path) = Absent
    THEN NotFound(path)
    ELSE Ok(FileAt(d, inst, path))

\* std::str::from_utf8, for buffers of one-byte characters, of two-byte
\* characters and of the three-byte encoding of U+FEFF; any other byte is
\* invalid.  The text is the sequence of the code points.
RECURSIVE FromUtf8(_)
FromUtf8(buf) ==
    IF buf = <<>> THEN Ok(<<>>)
    ELSE IF Head(buf) < 128
    THEN LET rest == FromUtf8(Tail(buf))
         IN  IF rest.tag = "Ok" THEN Ok(<<Head(buf)>> \o rest.val) ELSE rest
    ELSE IF IsPrefix(Bom, buf)
    THEN LET rest == FromUtf8(SubSeq(buf, 4, Len(buf)))
         IN  IF rest.tag = "Ok" THEN Ok(<<65279>> \o rest.val) ELSE rest
    ELSE IF /\ Len(buf) >= 2
            /\ Head(buf) >= 194 /\ Head(buf) <= 223
            /\ buf[2] >= 128 /\ buf[2] <= 191
    THEN LET rest == FromUtf8(SubSeq(buf, 3, Len(buf)))
         IN  IF rest.tag = "Ok"
             THEN Ok(<<(Head(buf) - 192) * 64 + (buf[2] - 128)>> \o rest.val)
             ELSE rest
    ELSE InvalidUtf8

\* A decode_utf8 that removes every leading byte-order mark.
RECURSIVE decode_utf8_StripAll(_)
decode_utf8_StripAll(buf) ==
    IF IsPrefix(Bom, buf) THEN decode_utf8_StripAll(SubSeq(buf, 4, Len(buf)))
    ELSE FromUtf8(buf)

\* decode_utf8
decode_utf8(buf) ==
    FromUtf8(IF IsPrefix(Bom, buf) THEN SubSeq(buf, 4, Len(buf)) ELSE buf)

-----------------------------------------------------------------------------
(* The slot cache. *)

\* The fingerprint of a cell that never loaded.
Zero == [tag |-> "Zero", val |-> <<>>]

\* typst::util::hash128 of a load's result, taken to be free of collisions:
\* the result stands for its own hash.
hash128(result) == result

\* SlotCell::new
NewCell == [data |-> None, fingerprint |-> Zero, accessed |-> FALSE]

\* FileSlot::new
NewSlot == [source |-> NewCell, file |-> NewCell]

\* A cell that trusts its accessed flag in no case and loads on every call.
CellHit_AlwaysLoad(cell) == FALSE

\* SlotCell::get_or_init, its first test: the cell was accessed already and
\* holds data.
CellHit(cell) == cell.accessed /\ cell.data.tag # "None"

\* FileSlot::source, the closure that turns bytes into a Source: the decoded
\* text, put into the previous Source (prev.replace) or into a new one; the
\* Source holds the same text either way.
SourceOf(data, prev) == decode_utf8(data)

\* A bytes projection that only hands out what decodes as text.
BytesOf_Decoded(data, prev) ==
    IF decode_utf8(data).tag = "Ok" THEN Ok(data) ELSE decode_utf8(data)

\* FileSlot::file, the closure that turns bytes into Bytes.
BytesOf(data, prev) == Ok(data)

\* The closure f of get_or_init, by the projection asked for.
Process(kind, data, prev) ==
    IF kind = "get_text" THEN SourceOf(data, prev) ELSE BytesOf(data, prev)

\* SlotCell::get_or_init of the cell of projection `kind`, given the result
\* `load` comes to.  `loaded` tells whether load was called.
get_or_init(cell, result, kind) ==
    IF CellHit(cell)
    THEN [value |-> cell.data, cell |-> [cell EXCEPT !.accessed = TRUE],
          loaded |-> FALSE]
    ELSE LET fingerprint == hash128(result)
         IN  IF SameResult(cell.fingerprint, fingerprint) /\ cell.data.tag # "None"
             THEN [value |-> cell.data,
                   cell |-> [cell EXCEPT !.accessed = TRUE,
                                         !.fingerprint = fingerprint],
                   loaded |-> TRUE]
             ELSE LET prev == IF cell.data.tag = "Ok" THEN cell.data ELSE None
                      value == IF result.tag = "Ok"
                               THEN Process(kind, result.val, prev)
                               ELSE result
                  IN  [value |-> value,
                       cell |-> [data |-> value, fingerprint |-> fingerprint,
                                 accessed |-> TRUE],
                       loaded |-> TRUE]

\* read: system_path, then read_from_disk.
read(sp, d) ==
    IF sp.res.tag = "Ok" THEN read_from_disk(sp.res.val, d, sp.inst) ELSE sp.res

-----------------------------------------------------------------------------
(* History kept for the properties. *)

NoId == [package |-> NoPackage, vpath |-> <<>>]

NoOp ==
    [kind |-> "none", id |-> NoId, res |-> None, loaded |-> FALSE,
     resolved |-> None, croot |-> None, provisioned |-> FALSE,
     fetched |-> FALSE, prev |-> None, prevBytes |-> Absent, nowBytes |-> Absent,
     prevSlot |-> NewSlot]

NotSeen ==
    [firstText |-> None, nText |-> 0, textBytes |-> Absent, changed |-> FALSE,
     written |-> FALSE, firstResolve |-> None]

\* The path an identifier's bytes come from, whatever the exclusion filter.
BackingPath(id) == system_path(package_override, root, {}, id, installed, "ok").res

\* The bytes behind an identifier now.
Backing(id, d, inst) ==
    IF BackingPath(id).tag = "Ok" THEN FileAt(d, inst, BackingPath(id).val) ELSE Absent

-----------------------------------------------------------------------------
(* The operations. *)

\* No virtual slot registered, the coordinate mapper not called yet.
NoCoord ==
    [kind |-> "none", id |-> NoId, given |-> 0, line |-> 0, res |-> None,
     text |-> None, build |-> "none", package |-> NoPackage, diag |-> None,
     items |-> <<>>]

\* The threads of the compiler that call into one context.
Threads == {1, 2}

IdleThread == [pc |-> "idle", id |-> NoId, kind |-> "none"]

\* The check jobs of the hook server that run at the same time.
Jobs == {1, 2}

NoJob == [pc |-> "start", sha |-> "", diags |-> <<>>]

\* prepare_package not called yet.
NoProv ==
    [spec |-> NoPackage, before |-> {}, after |-> {}, res |-> None,
     fetched |-> FALSE, unpacked |-> FALSE]

\* parse_diff_tree_paths not called yet.
NoParse == [input |-> <<>>, res |-> None]

\* No delivery accepted yet.
NoHook ==
    [pc |-> "start", queue |-> <<>>, touched |-> <<>>, cur |-> NoPackage,
     outside |-> FALSE, runs |-> <<>>, checked |-> {}, outcome |-> "none",
     provisioning |-> None, err |-> "none"]

\* No traversal started yet.
NoWalk ==
    [pc |-> "start", graph |-> <<>>, stack |-> <<>>, visited |-> {},
     checks |-> <<>>]

\* The check command not started yet.
NoCli ==
    [pc |-> "start", listed |-> <<>>, queue |-> <<>>, checked |-> <<>>,
     printed |-> <<>>, outcomes |-> <<>>, status |-> -1]

\* What is not the file system and not the context's configuration.
InitState ==
    /\ slots = <<>>
    /\ pc = "running"
    /\ nops = 0
    /\ nwrites = 0
    /\ lastOp = NoOp
    /\ seen = [id \in FileIds |-> NotSeen]
    /\ diags = [errors |-> <<>>, warnings |-> <<>>]
    /\ merged = [kind |-> "none", before |-> [errors |-> <<>>, warnings |-> <<>>],
                 other |-> [errors |-> <<>>, warnings |-> <<>>], items |-> <<>>,
                 prefix |-> <<>>]
    /\ virtuals = <<>>
    /\ coord = NoCoord
    /\ lock = 0
    /\ threads = [t \in Threads |-> IdleThread]
    /\ jobs = [j \in Jobs |-> NoJob]
    /\ tree = <<>>
    /\ prov = NoProv
    /\ parse = NoParse
    /\ hook = NoHook
    /\ walk = NoWalk
    /\ cli = NoCli

Init ==
    /\ \E c \in Contexts :
           /\ root = c.root
           /\ package_override = c.ov
           \* world_for_template installs the manifest's filter as it builds
           \* the context; check::manifest::check installs none.
           /\ excluded \in IF c.ov = NoOverride THEN {{}} ELSE Filters
    /\ disk = [p \in DiskPaths |-> BytesA]
    /\ installed = [p \in Packages |-> {}]
    /\ InitState

\* SystemWorld::exclude
Exclude(globs) ==
    /\ pc = "running"
    /\ nops < MaxOps
    /\ globs # excluded
    /\ excluded' = globs
    /\ nops' = nops + 1
    /\ lastOp' = [NoOp EXCEPT !.kind = "exclude"]
    /\ seen' = [id \in FileIds |-> [seen[id] EXCEPT !.firstResolve = None]]
    /\ UNCHANGED <<root, package_override, slots, disk, installed, pc, nwrites>>
    /\ UNCHANGED <<diagVars, coordVars, threadVars, jobVars, extVars>>

\* A call of system_path on the context.
Resolve(id, net) ==
    /\ pc = "running"
    /\ nops < MaxOps
    /\ \E sp \in {system_path(package_override, root, excluded, id, installed, net)} :
           /\ installed' = sp.inst
           /\ pc' = IF sp.res.tag = "Panic" THEN "panicked" ELSE "running"
           /\ lastOp' = [NoOp EXCEPT !.kind = "resolve", !.id = id,
                                     !.res = sp.res, !.resolved = sp.res,
                                     !.croot = sp.croot,
                                     !.provisioned = sp.provisioned,
                                     !.fetched = sp.fetched,
                                     !.prev = seen[id].firstResolve]
           /\ seen' = [seen EXCEPT ![id].firstResolve =
                           IF @.tag = "None" THEN sp.res ELSE @]
    /\ nops' = nops + 1
    /\ UNCHANGED <<root, package_override, excluded, slots, disk, nwrites>>
    /\ UNCHANGED <<diagVars, coordVars, threadVars, jobVars, extVars>>

\* SystemWorld::source (kind "get_text") and SystemWorld::file (kind
\* "get_bytes"): the slot is looked up or inserted, and its cell asked.  The
\* load (read) runs only when the cell asks for it; a load that unwinds leaves
\* the cell marked as accessed and ends the job.
Get(kind, id, net) ==
    /\ pc = "running"
    /\ nops < MaxOps
    /\ \E slot \in {IF id \in DOMAIN slots THEN slots[id] ELSE NewSlot} :
       \E sp \in {system_path(package_override, root, excluded, id, installed, net)} :
       \E result \in {read(sp, disk)} :
       \E backing \in {Backing(id, disk, installed)} :
       \E cell \in {IF kind = "get_text" THEN slot.source ELSE slot.file} :
       \E unwound \in {~CellHit(cell) /\ result.tag = "Panic"} :
       \E got \in {get_or_init(cell, result, kind)} :
       \E after \in {IF unwound THEN [cell EXCEPT !.accessed = TRUE] ELSE got.cell} :
       \E value \in {IF unwound THEN result ELSE got.value} :
       \E loaded \in {unwound \/ got.loaded} :
           /\ slots' = (id :> (IF kind = "get_text"
                               THEN [slot EXCEPT !.source = after]
                               ELSE [slot EXCEPT !.file = after])) @@ slots
           /\ installed' = IF loaded THEN sp.inst ELSE installed
           /\ pc' = IF unwound THEN "panicked" ELSE "running"
           /\ lastOp' = [kind |-> kind, id |-> id, res |-> value,
                         loaded |-> loaded,
                         resolved |-> IF loaded THEN sp.res ELSE None,
                         croot |-> IF loaded THEN sp.croot ELSE None,
                         provisioned |-> loaded /\ sp.provisioned,
                         fetched |-> loaded /\ sp.fetched,
                         prev |-> IF kind = "get_text" THEN seen[id].firstText
                                  ELSE None,
                         prevBytes |-> seen[id].textBytes,
                         nowBytes |-> backing,
                         prevSlot |-> slot]
           /\ seen' = [seen EXCEPT
                  ![id].firstText =
                      IF kind = "get_text" /\ @.tag = "None" THEN value ELSE @,
                  ![id].nText =
                      IF kind = "get_text" /\ @ < 2 THEN @ + 1 ELSE @,
                  ![id].textBytes =
                      IF kind = "get_text" THEN backing ELSE @,
                  ![id].firstResolve =
                      IF loaded /\ @.tag = "None" THEN sp.res ELSE @]
    /\ nops' = nops + 1
    /\ UNCHANGED <<root, package_override, excluded, disk, nwrites>>
    /\ UNCHANGED <<diagVars, coordVars, threadVars, jobVars, extVars>>

\* The bytes of a file of the project change from outside the context.
WriteDisk(path, bytes) ==
    /\ pc = "running"
    /\ nwrites < MaxWrites
    /\ disk[path] # bytes
    /\ disk' = [disk EXCEPT ![path] = bytes]
    /\ nwrites' = nwrites + 1
    /\ seen' = [id \in FileIds |->
                   IF SameResult(BackingPath(id), Ok(path))
                   THEN [seen[id] EXCEPT !.written = TRUE,
                                         !.changed = @ \/ seen[id].nText > 0]
                   ELSE seen[id]]
    /\ UNCHANGED <<root, package_override, excluded, slots, installed, pc, nops,
                   lastOp>>
    /\ UNCHANGED <<diagVars, coordVars, threadVars, jobVars, extVars>>

\* Another job of the process, provisioning the same package, fails to unpack
\* it and removes the cache directory the two jobs share.
CacheRemoved(spec) ==
    /\ pc = "running"
    /\ nwrites < MaxWrites
    /\ "cache" \in installed[spec]
    /\ installed' = DownloadPackage(spec, installed, "malformed").inst
    /\ nwrites' = nwrites + 1
    /\ UNCHANGED <<root, package_override, excluded, slots, disk, pc, nops,
                   lastOp, seen>>
    /\ UNCHANGED <<diagVars, coordVars, threadVars, jobVars, extVars>>

\* The identifiers the compiler asks the context for.
CacheIds ==
    {[package |-> NoPackage, vpath |-> <<"a.typ">>],
     [package |-> PkgP, vpath |-> <<"a.typ">>],
     [package |-> PkgQ, vpath |-> <<"a.typ">>]}

\* The slot cache in use: reads through the cache, the filter replaced, the
\* project's files changing.
Next ==
    \/ \E globs \in Filters : Exclude(globs)
    \/ \E id \in CacheIds :
           \E net \in NetChoices(package_override, root, id, installed) :
               Get("get_text", id, net)
    \/ \E id \in CacheIds :
           \E net \in NetChoices(package_override, root, id, installed) :
               Get("get_bytes", id, net)
    \/ \E bytes \in {BytesBomB, BytesBomBomB, BytesBad} :
           WriteDisk(root \o <<"a.typ">>, bytes)

Spec == Init /\ [][Next]_vars

\* The path resolver on its own: calls of system_path, the filter replaced,
\* the shared package cache changed by another job.
ResolveNext ==
    \/ \E globs \in Filters : Exclude(globs)
    \/ \E spec \in Packages : CacheRemoved(spec)
    \/ \E id \in FileIds :
           \E net \in NetChoices(package_override, root, id, installed) :
               Resolve(id, net)

SpecResolve == Init /\ [][ResolveNext]_vars

\* The outcomes to draw for a call of prepare_package: they matter only when
\* it reaches the download.
ProvisionChoices(spec, inst) ==
    IF inst[spec] \cap {"data", "cache"} = {} /\ spec.namespace = "preview"
    THEN NetOutcomes ELSE {"ok"}

\* A call of prepare_package.
Provision(spec, net) ==
    /\ nops < MaxOps
    /\ \E pp \in {PreparePackage(spec, installed, net)} :
           /\ installed' = pp.inst
           /\ prov' = [spec |-> spec, before |-> installed[spec],
                       after |-> pp.inst[spec], res |-> pp.res,
                       fetched |-> pp.fetched, unpacked |-> pp.unpacked]
    /\ nops' = nops + 1
    /\ UNCHANGED <<root, package_override, excluded, slots, disk, pc, nwrites,
                   lastOp, seen, parse, hook, walk, cli>>
    /\ UNCHANGED <<diagVars, coordVars, threadVars, jobVars>>

\* The packages found on disk when the process starts: each in its data
\* directory, in its cache directory, in both or in neither.
InitProvision ==
    /\ root = <<"tmp", "co">>
    /\ package_override = NoOverride
    /\ excluded = {}
    /\ disk = [p \in DiskPaths |-> BytesA]
    /\ installed \in [Packages -> SUBSET {"data", "cache"}]
    /\ InitState

\* The package provisioner on its own, the shared cache changed by another
\* job.
ProvisionNext ==
    \/ \E spec \in Packages : CacheRemoved(spec)
    \/ \E spec \in Packages :
           \E net \in ProvisionChoices(spec, installed) : Provision(spec, net)

SpecProvision == InitProvision /\ [][ProvisionNext]_vars

-----------------------------------------------------------------------------
(* The diagnostic aggregator (check/diagnostics.rs). *)

\* Diagnostics::default
NoDiagnostics == [errors |-> <<>>, warnings |-> <<>>]

Label(id, range) == [file_id |-> id, range |-> range]

\* The diagnostics the checks emit: an error whose primary label is local and
\* whose secondary label lies in another package, a warning the other way
\* round (its local label reaching above the sub-root), and a note without
\* labels.
DiagLocal ==
    [severity |-> "Error", message |-> "local",
     labels |-> <<Label([package |-> NoPackage, vpath |-> <<"a.typ">>], <<0, 1>>),
                  Label([package |-> PkgQ, vpath |-> <<"a.typ">>], <<2, 3>>)>>]

DiagPkg ==
    [severity |-> "Warning", message |-> "package",
     labels |-> <<Label([package |-> PkgQ, vpath |-> <<"a.typ">>], <<0, 1>>),
                  Label([package |-> NoPackage, vpath |-> <<"..", "a.typ">>],
                        <<4, 5>>)>>]

DiagNote == [severity |-> "Note", message |-> "note", labels |-> <<>>]

DiagPool == {DiagLocal, DiagPkg, DiagNote}

\* The sequences of diagnostics handed to one call.
DiagSeqs ==
    {<<>>} \cup {<<d>> : d \in DiagPool}
           \cup {<<d, e>> : d \in DiagPool, e \in DiagPool}

\* The directory prefixes a sub-root is merged under.
Prefixes == {<<"template">>, <<"sub", "dir">>}

\* An emit that takes for an error what has the severity Error only.
emit_ErrorsOnly(ds, d) ==
    IF d.severity = "Error"
    THEN [ds EXCEPT !.errors = Append(@, d)]
    ELSE [ds EXCEPT !.warnings = Append(@, d)]

\* Diagnostics::emit
emit(ds, d) ==
    IF d.severity = "Warning"
    THEN [ds EXCEPT !.warnings = Append(@, d)]
    ELSE [ds EXCEPT !.errors = Append(@, d)]

\* Diagnostics::emit_many
RECURSIVE emit_many(_, _)
emit_many(ds, items) ==
    IF items = <<>> THEN ds ELSE emit_many(emit(ds, Head(items)), Tail(items))

\* Diagnostics::maybe_emit
maybe_emit(ds, maybe_err) ==
    IF maybe_err.tag = "Err" THEN emit(ds, maybe_err.val[1]) ELSE ds

\* A rewrite that takes no account of the package reference.
FixLabel_AnyPackage(label, dir_prefix) ==
    [label EXCEPT !.file_id =
        [package |-> NoPackage,
         vpath |-> VirtualPathNew(dir_prefix \o label.file_id.vpath)]]

\* Diagnostics::extend, the body of the loop of its fix_labels closure.
FixLabel(label, dir_prefix) ==
    IF label.file_id.package = NoPackage
    THEN [label EXCEPT !.file_id =
             [package |-> NoPackage,
              vpath |-> VirtualPathNew(dir_prefix \o label.file_id.vpath)]]
    ELSE label

\* Diagnostics::extend, its fix_labels closure.
fix_labels(diag, dir_prefix) ==
    [diag EXCEPT !.labels =
        [i \in 1..Len(diag.labels) |-> FixLabel(diag.labels[i], dir_prefix)]]

\* Diagnostics::extend
extend(ds, other, dir_prefix) ==
    [errors |-> ds.errors \o
                [i \in 1..Len(other.errors) |-> fix_labels(other.errors[i], dir_prefix)],
     warnings |-> ds.warnings \o
                [i \in 1..Len(other.warnings) |->
                    fix_labels(other.warnings[i], dir_prefix)]]

DiagCall(kind, after, other, items, prefix) ==
    /\ Len(diags.errors) + Len(diags.warnings) < MaxDiags
    /\ diags' = after
    /\ merged' = [kind |-> kind, before |-> diags, other |-> other,
                  items |-> items, prefix |-> prefix]
    /\ UNCHANGED <<worldVars, coordVars, threadVars, jobVars, extVars>>

Emit(d) == DiagCall("emit", emit(diags, d), NoDiagnostics, <<d>>, <<>>)

EmitMany(items) ==
    DiagCall("emit_many", emit_many(diags, items), NoDiagnostics, items, <<>>)

MaybeEmit(maybe_err) ==
    DiagCall("maybe_emit", maybe_emit(diags, maybe_err), NoDiagnostics,
             IF maybe_err.tag = "Err" THEN maybe_err.val ELSE <<>>, <<>>)

\* The set merged in is one a sub-job built by its own emit calls.
Extend(items, dir_prefix) ==
    DiagCall("extend", extend(diags, emit_many(NoDiagnostics, items), dir_prefix),
             emit_many(NoDiagnostics, items), items, dir_prefix)

DiagNext ==
    \/ \E d \in DiagPool : Emit(d)
    \/ \E items \in DiagSeqs : EmitMany(items)
    \/ \E r \in {Ok(<<>>)} \cup {[tag |-> "Err", val |-> <<d>>] : d \in DiagPool} :
           MaybeEmit(r)
    \/ \E items \in DiagSeqs, dir_prefix \in Prefixes : Extend(items, dir_prefix)

\* The aggregator is used next to one context, whichever it is.
InitDiag == Init /\ root = CanonicalDir(PkgP) /\ package_override = NoOverride

SpecDiag == InitDiag /\ [][DiagNext]_vars

-----------------------------------------------------------------------------
(* The coordinate mapper (cli.rs, the Files implementation of SystemWorld). *)

\* Offsets and lines the callers ask about.
MaxOffset == 4

\* Calls made on the coordinate mapper of one context.
MaxCoordOps == 2

\* usize arithmetic wraps modulo 2^64 where overflow checks are off.  The
\* integers of the model end before that, so the wrap is kept with a modulus
\* of 16 bits, which no length, offset or line of the model reaches.
UsizeModulus == 2^16

\* The number of bytes of a character's UTF-8 encoding.
Utf8Len(c) ==
    IF c < 128 THEN 1 ELSE IF c < 2048 THEN 2 ELSE IF c < 65536 THEN 3 ELSE 4

\* Lines::len_bytes
RECURSIVE len_bytes(_)
len_bytes(text) ==
    IF text = <<>> THEN 0 ELSE Utf8Len(Head(text)) + len_bytes(Tail(text))

\* The byte offset at which the i-th character of a text starts.
ByteOf(text, i) == len_bytes(SubSeq(text, 1, i - 1))

\* str::is_char_boundary: the offsets at which a character starts, and the end.
CharBoundaries(text) == {ByteOf(text, i) : i \in 1..(Len(text) + 1)}

\* typst::syntax::is_newline
IsNewline(c) == c \in {10, 11, 12, 13, 133, 8232, 8233}

\* The offsets at which the lines of a text start: the start of the text, and
\* the offset after every newline, "\r\n" being one newline.
LineStarts(text) ==
    {0} \cup {ByteOf(text, i + 1) :
                 i \in {k \in 1..Len(text) :
                           /\ IsNewline(text[k])
                           /\ ~(text[k] = 13 /\ k < Len(text) /\ text[k + 1] = 10)}}

\* Lines::len_lines
len_lines(text) == Cardinality(LineStarts(text))

\* Lines::byte_to_line
byte_to_line(text, byte_idx) ==
    IF byte_idx <= len_bytes(text)
    THEN Ok(<<Cardinality({start \in LineStarts(text) : start <= byte_idx}) - 1>>)
    ELSE None

\* Lines::line_to_byte
line_to_byte(text, line_idx) ==
    IF line_idx >= 0 /\ line_idx < len_lines(text)
    THEN Ok(<<CHOOSE start \in LineStarts(text) :
                  Cardinality({s \in LineStarts(text) : s < start}) = line_idx>>)
    ELSE None

\* Lines::byte_to_column: the characters between the start of the line and
\* the offset, when the offset is a character boundary.
byte_to_column(text, byte_idx) ==
    LET line == byte_to_line(text, byte_idx)
    IN  IF line.tag # "Ok" THEN None
        ELSE LET start == line_to_byte(text, line.val[1]).val[1]
             IN  IF byte_idx \in CharBoundaries(text)
                 THEN Ok(<<Cardinality({b \in CharBoundaries(text) :
                                           start <= b /\ b < byte_idx})>>)
                 ELSE None

\* Lines::line_to_range
line_to_range(text, line_idx) ==
    LET start == line_to_byte(text, line_idx)
        end == line_to_byte(text, line_idx + 1)
    IN  IF start.tag # "Ok" THEN None
        ELSE Ok(<<start.val[1],
                  IF end.tag = "Ok" THEN end.val[1] ELSE len_bytes(text)>>)

\* codespan_reporting::files::Error
IoError(e) == [tag |-> "Io", val |-> <<e.tag>>]

IndexTooLarge(given, max) == [tag |-> "IndexTooLarge", val |-> <<given, max>>]

LineTooLarge(given, max) == [tag |-> "LineTooLarge", val |-> <<given, max>>]

InvalidCharBoundary(given) == [tag |-> "InvalidCharBoundary", val |-> <<given>>]

\* The unwinding of an arithmetic overflow.
Overflow == [tag |-> "Panic", val |-> <<"attempt to subtract with overflow">>]

\* A lookup whose cell asks for the load: `sp` is what system_path returns
\* and `result` what read returns.  A load that unwinds leaves the cell marked
\* as accessed.
lookup_load(sl, id, slot, sp, result) ==
    LET cell == slot.source
        unwound == result.tag = "Panic"
        got == get_or_init(cell, result, "get_text")
    IN  [value |-> IF unwound THEN result ELSE got.value,
         slots |-> (id :> [slot EXCEPT !.source =
                              IF unwound THEN [cell EXCEPT !.accessed = TRUE]
                              ELSE got.cell]) @@ sl,
         inst |-> sp.inst,
         unwound |-> unwound]

\* SystemWorld::lookup, that is World::source: the text of an identifier,
\* through its slot.  `sl` and `inst` are the slots and the package
\* directories before the call.
lookup(sl, inst, id, net) ==
    LET slot == IF id \in DOMAIN sl THEN sl[id] ELSE NewSlot
    IN  IF CellHit(slot.source)
        THEN [value |-> slot.source.data, slots |-> sl, inst |-> inst,
              unwound |-> FALSE]
        ELSE CHOOSE lk \in UNION {
                 {lookup_load(sl, id, slot, sp, result) :
                      result \in {read(sp, disk)}} :
                 sp \in {system_path(package_override, root, excluded, id,
                                     inst, net)}} : TRUE

\* Files::source: the text, an empty text for a file that is not UTF-8.
Files_source(value) ==
    IF value.tag = "Ok" THEN value
    ELSE IF value.tag = "InvalidUtf8" THEN Ok(<<>>)
    ELSE IoError(value)

\* SystemWorld::virtual_line: the line shift of the identifier's slot, 0 for
\* a slot that was not registered as virtual.
virtual_line(v, id) == IF id \in DOMAIN v THEN v[id] ELSE 0

\* Files::line_index that adds no shift.
line_index_NoShift(src, shift, given) ==
    IF src.tag # "Ok" THEN src
    ELSE LET line == byte_to_line(src.val, given)
         IN  IF line.tag = "Ok" THEN Ok(<<line.val[1]>>)
             ELSE IndexTooLarge(given, len_bytes(src.val))

\* Files::line_index, `src` being what Files::source returned and `shift` the
\* identifier's virtual_line.
line_index(src, shift, given) ==
    IF src.tag # "Ok" THEN src
    ELSE LET line == byte_to_line(src.val, given)
         IN  IF line.tag = "Ok" THEN Ok(<<line.val[1] + shift>>)
             ELSE IndexTooLarge(given, len_bytes(src.val))

\* Files::line_range.  `given - self.virtual_line(id)` is a subtraction of
\* usize: below zero it unwinds in a build with overflow checks and wraps in
\* a build without.
line_range(src, shift, given, build) ==
    IF src.tag # "Ok" THEN src
    ELSE IF given < shift /\ build = "checked" THEN Overflow
    ELSE LET line == (given - shift + UsizeModulus) % UsizeModulus
             range == line_to_range(src.val, line)
         IN  IF range.tag = "Ok" THEN range
             ELSE LineTooLarge(line, len_lines(src.val))

\* Files::column_number
column_number(src, given) ==
    IF src.tag # "Ok" THEN src
    ELSE LET column == byte_to_column(src.val, given)
             max == len_bytes(src.val)
         IN  IF column.tag = "Ok" THEN column
             ELSE IF given <= max THEN InvalidCharBoundary(given)
             ELSE IndexTooLarge(given, max)

\* The builds of the program: with overflow checks (the dev profile) and
\* without (the release profile).
Builds == {"checked", "unchecked"}

\* The identifier check_readme makes up for a code block of the README
\* (FileId::new_fake): no file of the disk has it.
ReadmeId == [package |-> NoPackage, vpath |-> <<"README.md">>]

\* The code blocks of a README: "a\nb" and "\u{e9}\n".
Fragments == {<<97, 10, 98>>, <<195, 169, 10>>}

\* The lines (of the README) at which a code block starts.
LineShifts == {1, 41}

\* The identifiers diagnostics point into: a file of the project, a file the
\* project does not have, a file of another package, a code block.
CoordIds ==
    {[package |-> NoPackage, vpath |-> <<"a.typ">>],
     [package |-> NoPackage, vpath |-> <<"template", "a.typ">>],
     [package |-> PkgQ, vpath |-> <<"a.typ">>],
     ReadmeId}

\* The contents of the project's a.typ: "a\nb", "\u{e9}\n", and a file that
\* is not UTF-8.
CoordFiles == {<<97, 10, 98>>, <<195, 169, 10>>, BytesBad}

\* The lines asked for: the first ones, and those at and after a shift.
GivenLines == (0..2) \cup {s + k : s \in LineShifts, k \in 0..2}

\* SystemWorld::virtual_source: registers a slot that holds the text decoded
\* from the bytes handed over, with its line shift.
VirtualSource(id, bytes, line) ==
    /\ pc = "running"
    /\ nops < MaxCoordOps
    /\ id \notin DOMAIN virtuals
    /\ id \notin DOMAIN slots
    /\ \E got \in {get_or_init(NewCell, Ok(bytes), "get_text")} :
           /\ slots' = (id :> [NewSlot EXCEPT !.source = got.cell]) @@ slots
           /\ coord' = [NoCoord EXCEPT !.kind = "virtual_source", !.id = id,
                                       !.line = line, !.res = got.value]
    /\ virtuals' = (id :> line) @@ virtuals
    /\ nops' = nops + 1
    /\ UNCHANGED <<root, package_override, excluded, disk, installed, pc,
                   nwrites, lastOp, seen>>
    /\ UNCHANGED <<diagVars, threadVars, jobVars, extVars>>

\* One call of the coordinate mapper: the lookup through the slot, then the
\* translation `res` of the text it returned.
CoordCall(kind, id, given, build, lk, res) ==
    /\ pc = "running"
    /\ nops < MaxCoordOps
    /\ slots' = lk.slots
    /\ installed' = lk.inst
    /\ pc' = IF lk.unwound \/ res.tag = "Panic" THEN "panicked" ELSE "running"
    /\ coord' = [NoCoord EXCEPT !.kind = kind, !.id = id, !.given = given,
                                !.line = virtual_line(virtuals, id),
                                !.res = IF lk.unwound THEN lk.value ELSE res,
                                !.text = Files_source(lk.value),
                                !.build = build]
    /\ nops' = nops + 1
    /\ UNCHANGED <<root, package_override, excluded, disk, nwrites, lastOp,
                   seen, virtuals>>
    /\ UNCHANGED <<diagVars, threadVars, jobVars, extVars>>

LineIndex(id, given) ==
    \E lk \in {lookup(slots, installed, id, "ok")} :
        CoordCall("line_index", id, given, "none", lk,
                  line_index(Files_source(lk.value), virtual_line(virtuals, id),
                             given))

LineRange(id, given, build) ==
    \E lk \in {lookup(slots, installed, id, "ok")} :
        CoordCall("line_range", id, given, build, lk,
                  line_range(Files_source(lk.value), virtual_line(virtuals, id),
                             given, build))

ColumnNumber(id, given) ==
    \E lk \in {lookup(slots, installed, id, "ok")} :
        CoordCall("column_number", id, given, "none", lk,
                  column_number(Files_source(lk.value), given))

\* The context of a package checked in the registry's layout, its imports
\* provisioned by the compilation that came before.
InitCoord ==
    /\ root = CanonicalDir(PkgP)
    /\ package_override = NoOverride
    /\ excluded = {}
    /\ \E bytes \in CoordFiles :
           disk = [p \in DiskPaths |->
                      IF p = CanonicalDir(PkgP) \o <<"a.typ">> THEN bytes
                      ELSE IF p = CanonicalDir(PkgP) \o <<"template", "a.typ">>
                      THEN Absent
                      ELSE BytesA]
    /\ installed = [p \in Packages |-> {"cache"}]
    /\ InitState

CoordNext ==
    \/ \E bytes \in Fragments, line \in LineShifts :
           VirtualSource(ReadmeId, bytes, line)
    \/ \E id \in CoordIds, given \in 0..MaxOffset : LineIndex(id, given)
    \* the build decides the outcome of a subtraction that overflows only
    \/ \E id \in CoordIds, given \in GivenLines :
           \E build \in IF given < virtual_line(virtuals, id)
                         THEN Builds ELSE {"unchecked"} :
               LineRange(id, given, build)
    \/ \E id \in CoordIds, given \in 0..MaxOffset : ColumnNumber(id, given)

SpecCoord == InitCoord /\ [][CoordNext]_vars

-----------------------------------------------------------------------------
(* The annotations of a report (github.rs). *)

\* AnnotationLevel
AnnotationLevel(severity) == IF severity = "Warning" THEN "warning" ELSE "failure"

\* Result::ok: the value, or nothing.
ok(res) == IF res.tag = "Ok" THEN res ELSE None

\* diagnostic_to_annotation, the path: packages/<namespace>/<name>/<version>
\* of `package`, joined with the label's virtual path.
AnnotationPath(package, file_id) ==
    <<"packages", package.namespace, package.name, package.version>>
        \o file_id.vpath

\* diagnostic_to_annotation, the lines: "Lines are 1-indexed on GitHub but not
\* for codespan".
StartLine(line) == line + 1

\* diagnostic_to_annotation, the columns: those of the two offsets when they
\* lie on one line, each dropped when column_number fails.
Columns(src, label, start_line, end_line) ==
    IF start_line = end_line
    THEN [start |-> ok(column_number(src, label.range[1])),
          end |-> ok(column_number(src, label.range[2]))]
    ELSE [start |-> None, end |-> None]

\* An annotation made for a label whatever the coordinate mapper returned.
Annotate_Unchecked(package, diag, src, shift) ==
    LET label == diag.labels[1]
        start_line == line_index(src, shift, label.range[1])
        end_line == line_index(src, shift, label.range[2])
        line(res) == IF res.tag = "Ok" THEN res.val[1] ELSE 0
        columns == Columns(src, label, line(start_line), line(end_line))
    IN  Ok(<<[path |-> AnnotationPath(package, label.file_id),
              start_line |-> StartLine(line(start_line)),
              end_line |-> StartLine(line(end_line)),
              start_column |-> columns.start,
              end_column |-> columns.end,
              annotation_level |-> AnnotationLevel(diag.severity),
              message |-> diag.message]>>)

\* diagnostic_to_annotation for a diagnostic that has a label, `src` being
\* what Files::source returns for the label's identifier (every call of the
\* coordinate mapper gets the same text from the slot) and `shift` its
\* virtual_line.
Annotate(package, diag, src, shift) ==
    LET label == diag.labels[1]
        start_line == line_index(src, shift, label.range[1])
        end_line == line_index(src, shift, label.range[2])
    IN  IF start_line.tag # "Ok" \/ end_line.tag # "Ok" THEN None
        ELSE LET columns == Columns(src, label, start_line.val[1], end_line.val[1])
             IN  Ok(<<[path |-> AnnotationPath(package, label.file_id),
                       start_line |-> StartLine(start_line.val[1]),
                       end_line |-> StartLine(end_line.val[1]),
                       start_column |-> columns.start,
                       end_column |-> columns.end,
                       annotation_level |-> AnnotationLevel(diag.severity),
                       message |-> diag.message]>>)

\* diagnostic_to_annotation: nothing for a diagnostic without labels; else
\* the lookup of the first label's identifier and the annotation made of it.
diagnostic_to_annotation(sl, inst, v, package, diag) ==
    IF diag.labels = <<>>
    THEN [res |-> None, slots |-> sl, inst |-> inst, unwound |-> FALSE]
    ELSE CHOOSE r \in
             {[res |-> IF lk.unwound THEN lk.value
                       ELSE Annotate(package, diag, Files_source(lk.value),
                                     virtual_line(v, diag.labels[1].file_id)),
               slots |-> lk.slots, inst |-> lk.inst, unwound |-> lk.unwound] :
                  lk \in {lookup(sl, inst, diag.labels[1].file_id, "ok")}} : TRUE

\* github_hook, the annotations of the report: those of the errors, then
\* those of the warnings, the diagnostics that give none left out.
RECURSIVE annotations(_, _, _, _, _)
annotations(sl, inst, v, package, items) ==
    IF items = <<>>
    THEN [list |-> <<>>, slots |-> sl, inst |-> inst, unwound |-> FALSE]
    ELSE CHOOSE r \in UNION {
             {IF first.unwound
              THEN [list |-> <<>>, slots |-> first.slots, inst |-> first.inst,
                    unwound |-> TRUE]
              ELSE [list |-> (IF first.res.tag = "Ok" THEN first.res.val
                              ELSE <<>>) \o rest.list,
                    slots |-> rest.slots, inst |-> rest.inst,
                    unwound |-> rest.unwound] :
                  rest \in {IF first.unwound THEN first
                            ELSE annotations(first.slots, first.inst, v, package,
                                             Tail(items))}} :
             first \in {diagnostic_to_annotation(sl, inst, v, package,
                                                 Head(items))}} : TRUE

\* A diagnostic of the checks: its first label at `range` of `id`, a second
\* label elsewhere.
AnnotDiag(id, range) ==
    [severity |-> IF (range[1] + range[2]) % 2 = 0 THEN "Error" ELSE "Warning",
     message |-> <<id.vpath, range>>,
     labels |-> <<Label(id, range),
                  Label([package |-> PkgQ, vpath |-> <<"template", "a.typ">>],
                        <<0, 0>>)>>]

\* A diagnostic without labels.
AnnotNote == [severity |-> "Error", message |-> <<"note">>, labels |-> <<>>]

Ranges == {<<start, end>> \in (0..MaxOffset) \X (0..MaxOffset) : start <= end}

AnnotDiags == {AnnotDiag(id, range) : id \in CoordIds, range \in Ranges}
                  \cup {AnnotNote}

\* The diagnostics of the reports: on one line, across lines, past the end
\* of the file, in a file that is missing, in another package, in a code
\* block, without labels.
ReportPool ==
    {AnnotDiag([package |-> NoPackage, vpath |-> <<"a.typ">>], <<0, 1>>),
     AnnotDiag([package |-> NoPackage, vpath |-> <<"a.typ">>], <<0, 3>>),
     AnnotDiag([package |-> NoPackage, vpath |-> <<"a.typ">>], <<0, MaxOffset>>),
     AnnotDiag([package |-> NoPackage, vpath |-> <<"template", "a.typ">>], <<0, 1>>),
     AnnotDiag([package |-> PkgQ, vpath |-> <<"a.typ">>], <<0, 1>>),
     AnnotDiag(ReadmeId, <<0, 1>>),
     AnnotNote}

\* The diagnostics of a check run, as emit sorts them.
ReportSets ==
    {emit_many(NoDiagnostics, items) :
         items \in {<<>>} \cup {<<d>> : d \in ReportPool}
                          \cup {<<d, e>> : d \in ReportPool, e \in ReportPool}}

\* One call of diagnostic_to_annotation for the package under test, in the
\* making of the one report a check run sends.
ToAnnotation(package, diag) ==
    /\ pc = "running"
    /\ coord.kind \in {"none", "virtual_source"}
    /\ \E r \in {diagnostic_to_annotation(slots, installed, virtuals, package, diag)} :
           /\ slots' = r.slots
           /\ installed' = r.inst
           /\ pc' = IF r.unwound THEN "panicked" ELSE "running"
           /\ coord' = [NoCoord EXCEPT
                  !.kind = "annotation", !.package = package,
                  !.diag = Ok(<<diag>>), !.res = r.res,
                  !.id = IF diag.labels = <<>> THEN NoId
                         ELSE diag.labels[1].file_id,
                  !.line = IF diag.labels = <<>> THEN 0
                           ELSE virtual_line(virtuals, diag.labels[1].file_id),
                  !.text = IF diag.labels = <<>> THEN None
                           ELSE Files_source(
                                    r.slots[diag.labels[1].file_id].source.data)]
    /\ nops' = nops + 1
    /\ UNCHANGED <<root, package_override, excluded, disk, nwrites, lastOp,
                   seen, virtuals>>
    /\ UNCHANGED <<diagVars, threadVars, jobVars, extVars>>

\* github_hook: the report of a check run, its annotations made of the
\* diagnostics `ds` that all_checks returned.
Report(package, ds) ==
    /\ pc = "running"
    /\ coord.kind \in {"none", "virtual_source"}
    /\ \E r \in {annotations(slots, installed, virtuals, package,
                             ds.errors \o ds.warnings)} :
           /\ slots' = r.slots
           /\ installed' = r.inst
           /\ pc' = IF r.unwound THEN "panicked" ELSE "running"
           /\ coord' = [NoCoord EXCEPT
                  !.kind = "report", !.package = package,
                  !.res = IF r.unwound THEN None ELSE Ok(r.list),
                  !.items = ds.errors \o ds.warnings]
    /\ nops' = nops + 1
    /\ UNCHANGED <<root, package_override, excluded, disk, nwrites, lastOp,
                   seen, virtuals>>
    /\ UNCHANGED <<diagVars, threadVars, jobVars, extVars>>

AnnotNext ==
    \/ \E bytes \in Fragments, line \in LineShifts :
           VirtualSource(ReadmeId, bytes, line)
    \/ \E diag \in AnnotDiags : ToAnnotation(PkgP, diag)
    \/ \E ds \in ReportSets : Report(PkgP, ds)

SpecAnnot == InitCoord /\ [][AnnotNext]_vars

-----------------------------------------------------------------------------
(* The slot map under concurrent calls (world.rs, SystemWorld::slot). *)

\* A lock given back as soon as the slot is looked up or inserted.
LockHeldDuringLoad_MapOnly == FALSE

\* SystemWorld::slot: the guard `map` lives until the closure f has returned,
\* so the mutex is held while the cell loads.
LockHeldDuringLoad == TRUE

\* A thread calls SystemWorld::source or SystemWorld::file.
Call(t, kind, id) ==
    /\ pc = "running"
    /\ nops < MaxOps
    /\ threads[t].pc = "idle"
    /\ threads' = [threads EXCEPT ![t] = [pc |-> "waiting", id |-> id,
                                         kind |-> kind]]
    /\ nops' = nops + 1
    /\ UNCHANGED <<root, package_override, excluded, slots, disk, installed, pc,
                   nwrites, lastOp, seen, lock>>
    /\ UNCHANGED <<diagVars, coordVars, jobVars, extVars>>

\* SystemWorld::slot: self.slots.lock(), then map.entry(id).or_insert_with;
\* SlotCell::get_or_init, its first test, tells whether load is called.
Acquire(t) ==
    /\ pc = "running"
    /\ threads[t].pc = "waiting"
    /\ lock = 0
    /\ \E id \in {threads[t].id} :
       \E slot \in {IF id \in DOMAIN slots THEN slots[id] ELSE NewSlot} :
       \E cell \in {IF threads[t].kind = "get_text" THEN slot.source
                    ELSE slot.file} :
           /\ slots' = (id :> slot) @@ slots
           /\ threads' = [threads EXCEPT ![t].pc =
                             IF CellHit(cell) THEN "hit" ELSE "loading"]
    /\ lock' = IF LockHeldDuringLoad THEN t ELSE 0
    /\ UNCHANGED <<root, package_override, excluded, disk, installed, pc, nops,
                   nwrites, lastOp, seen>>
    /\ UNCHANGED <<diagVars, coordVars, jobVars, extVars>>

\* SlotCell::get_or_init past its first test: load (system_path and the
\* read), the fingerprint, the decoding, the cell filled.
Load(t, net) ==
    /\ pc = "running"
    /\ threads[t].pc = "loading"
    /\ \E id \in {threads[t].id} :
       \E kind \in {threads[t].kind} :
       \E sp \in {system_path(package_override, root, excluded, id, installed, net)} :
       \E result \in {read(sp, disk)} :
       \E cell \in {IF kind = "get_text" THEN slots[id].source
                    ELSE slots[id].file} :
       \E unwound \in {result.tag = "Panic"} :
       \E got \in {get_or_init(cell, result, kind)} :
       \E after \in {IF unwound THEN [cell EXCEPT !.accessed = TRUE] ELSE got.cell} :
           /\ slots' = [slots EXCEPT ![id] =
                           IF kind = "get_text" THEN [@ EXCEPT !.source = after]
                           ELSE [@ EXCEPT !.file = after]]
           /\ installed' = sp.inst
           /\ pc' = IF unwound THEN "panicked" ELSE "running"
           /\ lastOp' = [NoOp EXCEPT !.kind = kind, !.id = id,
                                     !.res = IF unwound THEN result ELSE got.value,
                                     !.loaded = TRUE]
    /\ threads' = [threads EXCEPT ![t].pc = "loaded"]
    /\ UNCHANGED <<root, package_override, excluded, disk, nops, nwrites, seen,
                   lock>>
    /\ UNCHANGED <<diagVars, coordVars, jobVars, extVars>>

\* SystemWorld::slot returns: the guard is dropped.
Return(t) ==
    /\ threads[t].pc \in {"hit", "loaded"}
    /\ threads' = [threads EXCEPT ![t] = IdleThread]
    /\ lock' = IF lock = t THEN 0 ELSE lock
    /\ UNCHANGED <<root, package_override, excluded, slots, disk, installed, pc,
                   nops, nwrites, lastOp, seen>>
    /\ UNCHANGED <<diagVars, coordVars, jobVars, extVars>>

\* The context of a package whose files two threads of the compiler ask for.
InitThreads == Init /\ root = <<"tmp", "co">>

ThreadNext ==
    \/ \E t \in Threads, id \in CacheIds : Call(t, "get_text", id)
    \/ \E t \in Threads, id \in CacheIds : Call(t, "get_bytes", id)
    \/ \E t \in Threads : Acquire(t)
    \/ \E t \in Threads :
           \E net \in NetChoices(package_override, root, threads[t].id, installed) :
               Load(t, net)
    \/ \E t \in Threads : Return(t)

SpecThreads == InitThreads /\ [][ThreadNext]_vars

-----------------------------------------------------------------------------
(* The check jobs of the hook server (github.rs, github_hook). *)

\* Files of the working tree that the checks of one job read.
MaxReads == 2

\* The head commits of the deliveries.
Shas == {"s1", "s2"}

\* format!("checkout-{}", head_sha)
checkout_dir(head_sha) == <<"checkout", head_sha>>

\* github_hook: a delivery for a head commit is accepted and its job spawned.
Deliver(j, head_sha) ==
    /\ jobs[j].pc = "start"
    /\ jobs' = [jobs EXCEPT ![j] = [pc |-> "checkout", sha |-> head_sha,
                                   diags |-> <<>>]]
    /\ UNCHANGED <<worldVars, diagVars, coordVars, threadVars, tree, extVars>>

\* GitRepo::checkout_commit: the working tree is created and filled.
Checkout(j) ==
    /\ jobs[j].pc = "checkout"
    /\ tree' = (checkout_dir(jobs[j].sha) :> TRUE) @@ tree
    /\ jobs' = [jobs EXCEPT ![j].pc = "checking"]
    /\ UNCHANGED <<worldVars, diagVars, coordVars, threadVars, extVars>>

\* check::all_checks, one read of a file of the working tree: what is found
\* depends on the tree being there.
CheckFile(j) ==
    /\ jobs[j].pc = "checking"
    /\ Len(jobs[j].diags) < MaxReads
    /\ jobs' = [jobs EXCEPT ![j].diags =
                   Append(@, IF tree[checkout_dir(jobs[j].sha)]
                             THEN "read" ELSE "not found")]
    /\ UNCHANGED <<worldVars, diagVars, coordVars, threadVars, tree, extVars>>

\* github_hook: update_check_run with the diagnostics found.
SendReport(j) ==
    /\ jobs[j].pc = "checking"
    /\ Len(jobs[j].diags) = MaxReads
    /\ jobs' = [jobs EXCEPT ![j].pc = "reported"]
    /\ UNCHANGED <<worldVars, diagVars, coordVars, threadVars, tree, extVars>>

\* github_hook: tokio::fs::remove_dir_all(checkout_dir); it fails on a
\* directory that is gone already.
RemoveCheckout(j) ==
    /\ jobs[j].pc = "reported"
    /\ tree' = [tree EXCEPT ![checkout_dir(jobs[j].sha)] = FALSE]
    /\ jobs' = [jobs EXCEPT ![j].pc =
                   IF tree[checkout_dir(jobs[j].sha)] THEN "done" ELSE "failed"]
    /\ UNCHANGED <<worldVars, diagVars, coordVars, threadVars, extVars>>

InitJobs == Init /\ root = <<"tmp", "co">>

JobNext ==
    \/ \E j \in Jobs, head_sha \in Shas : Deliver(j, head_sha)
    \/ \E j \in Jobs : Checkout(j)
    \/ \E j \in Jobs : CheckFile(j)
    \/ \E j \in Jobs : SendReport(j)
    \/ \E j \in Jobs : RemoveCheckout(j)

SpecJobs == InitJobs /\ [][JobNext]_vars

-----------------------------------------------------------------------------
(* One webhook delivery: the loop of github_hook over the touched packages. *)

\* The orders in which the loop can meet the touched packages: they come out
\* of a HashSet.
TouchedOrders == {<<PkgP>>, <<PkgP, PkgQ>>, <<PkgQ, PkgP>>}

\* What a checked package imports from another package, if anything.
Imports ==
    {NoId,
     [package |-> PkgQ, vpath |-> <<"a.typ">>],
     [package |-> PkgL, vpath |-> <<"a.typ">>]}

\* What the checks of a package come to when nothing unwinds: no finding,
\* warnings only, errors, or an Err of the manifest check.
CheckOutcomes == {"clean", "warnings", "errors", "fatal"}

\* The project root of a package checked in the working tree.
CheckoutRoot(head_sha, spec) ==
    checkout_dir(head_sha) \o <<"packages", spec.namespace, spec.name, spec.version>>

\* A check run nobody created.
NoRun == [status |-> "none", conclusion |-> "none", title |-> "none"]

\* create_check_run: "status": "in_progress".
InProgress == [status |-> "in_progress", conclusion |-> "none", title |-> "none"]

\* update_check_run: "status": "completed", the conclusion by `success`.
Completed(success, title) ==
    [status |-> "completed",
     conclusion |-> IF success THEN "success" ELSE "failure",
     title |-> title]

\* The title of the report, by what was found.
ReportTitle(outcome) ==
    IF outcome = "clean" THEN "All good!"
    ELSE IF outcome = "warnings" THEN "n warnings" ELSE "n errors"

\* inner returns through a `?` or a `return Err(e)`: the handler logs the
\* error and the task ends.
HookFail(why) == [hook EXCEPT !.pc = "ended", !.err = why]

\* github_hook accepts a delivery; inner pulls, fetches the commit and lists
\* the touched packages.  A failure of one of these steps ends the task.
HookStart(order, outside, gitok) ==
    /\ hook.pc = "start"
    /\ hook' = IF gitok
               THEN [pc |-> "loop", queue |-> order, touched |-> order,
                     cur |-> NoPackage, outside |-> outside,
                     runs |-> [p \in Packages |-> NoRun], checked |-> {},
                     outcome |-> "none", provisioning |-> None, err |-> "none"]
               ELSE [pc |-> "ended", queue |-> <<>>, touched |-> order,
                     cur |-> NoPackage, outside |-> outside,
                     runs |-> [p \in Packages |-> NoRun], checked |-> {},
                     outcome |-> "none", provisioning |-> None, err |-> "git"]
    /\ UNCHANGED <<worldVars, diagVars, coordVars, threadVars, jobVars, prov,
                   parse, walk, cli>>

\* The loop takes the next package and creates its check run.
CreateCheckRun(apiok) ==
    /\ hook.pc = "loop"
    /\ hook.queue # <<>>
    /\ hook' = IF apiok
               THEN [hook EXCEPT !.pc = "created", !.cur = Head(hook.queue),
                                 !.queue = Tail(hook.queue),
                                 !.runs[Head(hook.queue)] = InProgress,
                                 !.outcome = "none", !.provisioning = None]
               ELSE HookFail("api")
    /\ UNCHANGED <<worldVars, diagVars, coordVars, threadVars, jobVars, prov,
                   parse, walk, cli>>

\* The commit touches files outside of packages/: the run is completed as a
\* failure and the loop goes on.
CancelCheckRun(apiok) ==
    /\ hook.pc = "created"
    /\ hook.outside
    /\ hook' = IF apiok
               THEN [hook EXCEPT !.pc = "loop",
                        !.runs[hook.cur] =
                            Completed(FALSE, "This PR does too many things")]
               ELSE HookFail("api")
    /\ UNCHANGED <<worldVars, diagVars, coordVars, threadVars, jobVars, prov,
                   parse, walk, cli>>

\* checkout_commit(..).context("Failed to checkout commit")?
CheckoutCommit(gitok) ==
    /\ hook.pc = "created"
    /\ ~hook.outside
    /\ hook' = IF gitok THEN [hook EXCEPT !.pc = "checking"]
               ELSE HookFail("checkout")
    /\ UNCHANGED <<worldVars, diagVars, coordVars, threadVars, jobVars, prov,
                   parse, walk, cli>>

\* check::all_checks on the package.  Compiling it resolves what it imports:
\* a provisioning failure unwinds out of system_path and, nothing catching
\* it, out of the task.
AllChecks(import, net, outcome) ==
    /\ hook.pc = "checking"
    /\ \E sp \in {system_path(NoOverride, CheckoutRoot("s1", hook.cur), {},
                              import, installed, net)} :
           /\ installed' = IF import = NoId THEN installed ELSE sp.inst
           /\ hook' =
                IF import # NoId /\ sp.res.tag = "Panic"
                THEN [hook EXCEPT !.pc = "panicked", !.provisioning = sp.res]
                ELSE [hook EXCEPT
                         !.pc = IF outcome = "fatal" THEN "fatal" ELSE "checked",
                         !.outcome = outcome,
                         !.checked = @ \cup {hook.cur},
                         !.provisioning = IF import = NoId THEN None ELSE sp.res]
    /\ UNCHANGED <<root, package_override, excluded, slots, disk, pc, nops,
                   nwrites, lastOp, seen>>
    /\ UNCHANGED <<diagVars, coordVars, threadVars, jobVars, prov, parse, walk,
                   cli>>

\* The Err arm: the run is completed with the title "Fatal error", then
\* `return Err(e)` leaves the loop.
ReportFatal(apiok) ==
    /\ hook.pc = "fatal"
    /\ hook' = IF apiok
               THEN [hook EXCEPT !.pc = "ended", !.err = "fatal",
                        !.runs[hook.cur] = Completed(FALSE, "Fatal error")]
               ELSE HookFail("api")
    /\ UNCHANGED <<worldVars, diagVars, coordVars, threadVars, jobVars, prov,
                   parse, walk, cli>>

\* update_check_run with the report: success when nothing was found.
SendHookReport(apiok) ==
    /\ hook.pc = "checked"
    /\ hook' = IF apiok
               THEN [hook EXCEPT !.pc = "reported",
                        !.runs[hook.cur] =
                            Completed(hook.outcome = "clean",
                                      ReportTitle(hook.outcome))]
               ELSE HookFail("api")
    /\ UNCHANGED <<worldVars, diagVars, coordVars, threadVars, jobVars, prov,
                   parse, walk, cli>>

\* tokio::fs::remove_dir_all(checkout_dir).await?
RemoveHookCheckout(fsok) ==
    /\ hook.pc = "reported"
    /\ hook' = IF fsok THEN [hook EXCEPT !.pc = "loop"] ELSE HookFail("remove")
    /\ UNCHANGED <<worldVars, diagVars, coordVars, threadVars, jobVars, prov,
                   parse, walk, cli>>

\* The loop is over: Ok(()).
HookEnd ==
    /\ hook.pc = "loop"
    /\ hook.queue = <<>>
    /\ hook' = [hook EXCEPT !.pc = "ended", !.err = "ok"]
    /\ UNCHANGED <<worldVars, diagVars, coordVars, threadVars, jobVars, prov,
                   parse, walk, cli>>

\* The imported packages are in the cache already, or not yet.
InitHook ==
    /\ root = <<"tmp", "co">>
    /\ package_override = NoOverride
    /\ excluded = {}
    /\ disk = [p \in DiskPaths |-> BytesA]
    /\ \E inst \in SUBSET {"cache"} :
           installed = [p \in Packages |-> IF p = PkgQ THEN inst ELSE {}]
    /\ InitState

HookNext ==
    \/ \E order \in TouchedOrders, outside \in BOOLEAN, gitok \in BOOLEAN :
           HookStart(order, outside, gitok)
    \/ \E apiok \in BOOLEAN : CreateCheckRun(apiok)
    \/ \E apiok \in BOOLEAN : CancelCheckRun(apiok)
    \/ \E gitok \in BOOLEAN : CheckoutCommit(gitok)
    \/ \E import \in Imports :
           \E net \in NetChoices(NoOverride, CheckoutRoot("s1", hook.cur),
                                 import, installed) :
               \E outcome \in CheckOutcomes : AllChecks(import, net, outcome)
    \/ \E apiok \in BOOLEAN : ReportFatal(apiok)
    \/ \E apiok \in BOOLEAN : SendHookReport(apiok)
    \/ \E fsok \in BOOLEAN : RemoveHookCheckout(fsok)
    \/ HookEnd

SpecHook == InitHook /\ [][HookNext]_vars

-----------------------------------------------------------------------------
(* The check command: main's loop over the packages given to it. *)

\* Most packages given on one command line.
MaxPackages == 2

\* The exit status of a process that panicked.
PanicStatus == 101

\* The argument lists of the check command: package specifications, none
\* given twice.
PackageLists ==
    {l \in UNION {[1..n -> Packages] : n \in 0..MaxPackages} :
        \A i, k \in 1..Len(l) : l[i] = l[k] => i = k}

\* main: the arguments are parsed; without a package the current directory
\* is checked, which has no package specification.
CliStart(packages) ==
    /\ cli.pc = "start"
    /\ cli' = [cli EXCEPT !.pc = "running", !.listed = packages,
                          !.queue = IF packages = <<>> THEN <<NoPackage>>
                                    ELSE packages]
    /\ UNCHANGED <<worldVars, diagVars, coordVars, threadVars, jobVars, prov,
                   parse, hook, walk>>

\* std::process::exit
Exit(c, status) == [c EXCEPT !.pc = "exited", !.status = status]

\* cli::main for the next package: all_checks, the diagnostics printed, and
\* exit(1) on errors or on a fatal error, exit(2) on warnings alone.  A
\* provisioning failure while compiling unwinds and ends the process.
CliMain(import, net, outcome) ==
    /\ cli.pc = "running"
    /\ cli.queue # <<>>
    /\ \E spec \in {Head(cli.queue)} :
       \E dir \in {IF spec = NoPackage THEN <<"tmp", "co">> ELSE CanonicalDir(spec)} :
       \E sp \in {system_path(NoOverride, dir, {}, import, installed, net)} :
       \E c \in {[cli EXCEPT !.queue = Tail(cli.queue),
                             !.checked = Append(@, spec)]} :
           /\ installed' = IF import = NoId THEN installed ELSE sp.inst
           /\ cli' =
                IF import # NoId /\ sp.res.tag = "Panic"
                THEN Exit([c EXCEPT !.outcomes = Append(@, "panic")], PanicStatus)
                ELSE IF outcome = "fatal"
                THEN Exit([c EXCEPT !.outcomes = Append(@, outcome)], 1)
                ELSE IF outcome = "errors"
                THEN Exit([c EXCEPT !.outcomes = Append(@, outcome),
                                    !.printed = Append(@, spec)], 1)
                ELSE IF outcome = "warnings"
                THEN Exit([c EXCEPT !.outcomes = Append(@, outcome),
                                    !.printed = Append(@, spec)], 2)
                ELSE [c EXCEPT !.outcomes = Append(@, outcome),
                               !.printed = Append(@, spec)]
    /\ UNCHANGED <<root, package_override, excluded, slots, disk, pc, nops,
                   nwrites, lastOp, seen>>
    /\ UNCHANGED <<diagVars, coordVars, threadVars, jobVars, prov, parse, hook,
                   walk>>

\* main returns after the loop: the process exits with status 0.
CliReturn ==
    /\ cli.pc = "running"
    /\ cli.queue = <<>>
    /\ cli' = Exit(cli, 0)
    /\ UNCHANGED <<worldVars, diagVars, coordVars, threadVars, jobVars, prov,
                   parse, hook, walk>>

CliNext ==
    \/ \E packages \in PackageLists : CliStart(packages)
    \/ \E import \in Imports :
           \E net \in NetChoices(NoOverride, <<"tmp", "co">>, import, installed) :
               \E outcome \in CheckOutcomes : CliMain(import, net, outcome)
    \/ CliReturn

SpecCli == InitHook /\ [][CliNext]_vars

-----------------------------------------------------------------------------
(* parse_diff_tree_paths: the paths listed by `git diff-tree --name-only`. *)
(* The output is a sequence of bytes; the paths are sequences of bytes.    *)

\* Longest output drawn from the alphabet.
MaxOutput == 5

\* '"', '\', '1', 'a' and the line feed.
Quote == 34

Backslash == 92

LineFeed == 10

CarriageReturn == 13

DiffTreeAlphabet == {Quote, Backslash, 49, 97, LineFeed}

\* "m\303\244.typ" in quotes, as git writes the name of a file "mä.typ", and
\* the same after an unquoted line.
QuotedName ==
    <<34, 109, 92, 51, 48, 51, 92, 50, 52, 52, 46, 116, 121, 112, 34>>

DiffTreeOutputs ==
    UNION {[1..n -> DiffTreeAlphabet] : n \in 0..MaxOutput}
        \cup {QuotedName, <<97, LineFeed>> \o QuotedName \o <<LineFeed>>}

\* The panics of parse_diff_tree_paths.
SliceIndexPanic == [tag |-> "Panic", val |-> <<"slice index">>]

InvalidEscapePanic ==
    [tag |-> "Panic", val |-> <<"Invalid escape sequence from Git">>]

InvalidPathPanic == [tag |-> "Panic", val |-> <<"Invalid UTF8 in path">>]

\* str::lines: the pieces between line feeds, a final line feed ending the
\* last line, and a carriage return before a line feed dropped.
RECURSIVE SplitLines(_, _)
SplitLines(output, line) ==
    IF output = <<>> THEN IF line = <<>> THEN <<>> ELSE <<line>>
    ELSE IF Head(output) = LineFeed
    THEN <<IF line # <<>> /\ line[Len(line)] = CarriageReturn
           THEN SubSeq(line, 1, Len(line) - 1) ELSE line>>
             \o SplitLines(Tail(output), <<>>)
    ELSE SplitLines(Tail(output), Append(line, Head(output)))

str_lines(output) == SplitLines(output, <<>>)

\* u8::from_str_radix(escaped, 8): digits 0 to 7 after an optional '+', the
\* value at most 255.
RECURSIVE OctalDigits(_, _)
OctalDigits(digits, acc) ==
    IF digits = <<>> THEN Ok(<<acc>>)
    ELSE IF Head(digits) < 48 \/ Head(digits) > 55 THEN None
    ELSE IF acc * 8 + (Head(digits) - 48) > 255 THEN None
    ELSE OctalDigits(Tail(digits), acc * 8 + (Head(digits) - 48))

from_str_radix(escaped) ==
    LET digits == IF escaped # <<>> /\ Head(escaped) = 43 THEN Tail(escaped)
                  ELSE escaped
    IN  IF digits = <<>> THEN None ELSE OctalDigits(digits, 0)

\* The loop over the characters of a quoted line: a backslash opens an escape
\* of three characters, which are collected and pushed as one byte; any other
\* character is pushed as it is.  An escape still open at the end is dropped.
RECURSIVE Unquote(_, _, _, _)
Unquote(chars, path, escape_seq, escaped) ==
    IF chars = <<>> THEN Ok(path)
    ELSE IF Head(chars) = Backslash
    THEN Unquote(Tail(chars), path, 3, escaped)
    ELSE IF escape_seq = 0
    THEN Unquote(Tail(chars), Append(path, Head(chars)), 0, escaped)
    ELSE IF escape_seq > 1
    THEN Unquote(Tail(chars), path, escape_seq - 1, Append(escaped, Head(chars)))
    ELSE LET byte == from_str_radix(Append(escaped, Head(chars)))
         IN  IF byte.tag = "Ok"
             THEN Unquote(Tail(chars), Append(path, byte.val[1]), 0, <<>>)
             ELSE InvalidEscapePanic

\* The closure of parse_diff_tree_paths for one line: a line that starts and
\* ends with '"' is unquoted from l[1..l.len() - 2], any other line is taken
\* as it is.
parse_line(l) ==
    IF l # <<>> /\ Head(l) = Quote /\ l[Len(l)] = Quote
    THEN IF Len(l) < 3 THEN SliceIndexPanic
         ELSE LET path == Unquote(SubSeq(l, 2, Len(l) - 2), <<>>, 0, <<>>)
              IN  IF path.tag # "Ok" THEN path
                  ELSE IF FromUtf8(path.val).tag # "Ok" THEN InvalidPathPanic
                  ELSE path
    ELSE Ok(l)

\* map(..).collect(): the paths in the order of the lines; a panic of the
\* closure unwinds out of the function.
RECURSIVE CollectPaths(_)
CollectPaths(ls) ==
    IF ls = <<>> THEN Ok(<<>>)
    ELSE LET first == parse_line(Head(ls))
         IN  IF first.tag # "Ok" THEN first
             ELSE LET rest == CollectPaths(Tail(ls))
                  IN  IF rest.tag # "Ok" THEN rest
                      ELSE Ok(<<first.val>> \o rest.val)

parse_diff_tree_paths(output) == CollectPaths(str_lines(output))

\* files_touched_by: the output of git is parsed, once per delivery.
FilesTouchedBy ==
    /\ parse.res.tag = "None"
    /\ \E output \in DiffTreeOutputs :
       \E res \in {parse_diff_tree_paths(output)} :
           parse' = [input |-> output, res |-> res]
    /\ UNCHANGED <<worldVars, diagVars, coordVars, threadVars, jobVars, prov,
                   hook, walk, cli>>

InitParse == InitHook /\ installed[PkgQ] = {}

ParseNext == FilesTouchedBy

SpecParse == InitParse /\ [][ParseNext]_vars

-----------------------------------------------------------------------------
(* The kebab-case traversal: check_source and its recursion over imports,  *)
(* the call stack made explicit.                                           *)

\* Imports at the root of one file.
MaxImports == 2

\* Deepest nesting of check_source calls followed.
MaxDepth == 5

\* The files of the package that have a source: the entrypoint and two
\* others.
WalkFiles == {"main", "b", "c"}

\* What an import can name: a file of the package, or a path for which
\* world.source fails.
ImportTargets == WalkFiles \cup {"missing"}

ImportLists == UNION {[1..n -> ImportTargets] : n \in 0..MaxImports}

\* The import graphs walked: any imports in the entrypoint and in "b", none
\* in "c".
ImportGraphs ==
    {[f \in WalkFiles |-> IF f = "main" THEN m ELSE IF f = "b" THEN b ELSE <<>>] :
        m \in ImportLists, b \in ImportLists}

\* A visited set that forgets: no file counts as seen.
Visited_Never(visited, id) == FALSE

\* visited.contains(&src.id())
Visited(visited, id) == id \in visited

\* A call of check_source that has not run yet, and one inside its loop over
\* the imports still to follow.
CalledFrame(id) == [id |-> id, entered |-> FALSE, todo |-> <<>>]

Top == walk.stack[Len(walk.stack)]

Below == SubSeq(walk.stack, 1, Len(walk.stack) - 1)

\* check: the traversal starts at the entrypoint with an empty visited set.
WalkStart(graph) ==
    /\ walk.pc = "start"
    /\ walk' = [pc |-> "walking", graph |-> graph,
                stack |-> <<CalledFrame("main")>>, visited |-> {},
                checks |-> [f \in WalkFiles |-> 0]]
    /\ UNCHANGED <<worldVars, diagVars, coordVars, threadVars, jobVars, prov,
                   parse, hook, cli>>

\* check_source, its head: a visited file returns at once; any other is
\* marked, checked (check_ast) and its imports are taken up.
WalkEnter ==
    /\ walk.pc = "walking"
    /\ walk.stack # <<>>
    /\ ~Top.entered
    /\ walk' = IF Visited(walk.visited, Top.id)
               THEN [walk EXCEPT !.stack = Below]
               ELSE [walk EXCEPT
                        !.visited = @ \cup {Top.id},
                        !.checks[Top.id] = @ + 1,
                        !.stack = Append(Below,
                                         [id |-> Top.id, entered |-> TRUE,
                                          todo |-> walk.graph[Top.id]])]
    /\ UNCHANGED <<worldVars, diagVars, coordVars, threadVars, jobVars, prov,
                   parse, hook, cli>>

\* check_source, one turn of its loop: the import is skipped when the world
\* has no source for it, and followed by a recursive call otherwise.
WalkImport ==
    /\ walk.pc = "walking"
    /\ walk.stack # <<>>
    /\ Top.entered
    /\ Top.todo # <<>>
    /\ Head(Top.todo) \in WalkFiles => Len(walk.stack) < MaxDepth
    /\ walk' = [walk EXCEPT !.stack =
                   Append(Below, [Top EXCEPT !.todo = Tail(@)])
                       \o (IF Head(Top.todo) \in WalkFiles
                           THEN <<CalledFrame(Head(Top.todo))>> ELSE <<>>)]
    /\ UNCHANGED <<worldVars, diagVars, coordVars, threadVars, jobVars, prov,
                   parse, hook, cli>>

\* check_source returns Some(()) after its loop.
WalkReturn ==
    /\ walk.pc = "walking"
    /\ walk.stack # <<>>
    /\ Top.entered
    /\ Top.todo = <<>>
    /\ walk' = [walk EXCEPT !.stack = Below]
    /\ UNCHANGED <<worldVars, diagVars, coordVars, threadVars, jobVars, prov,
                   parse, hook, cli>>

\* check returns once the outermost call has.
WalkDone ==
    /\ walk.pc = "walking"
    /\ walk.stack = <<>>
    /\ walk' = [walk EXCEPT !.pc = "done"]
    /\ UNCHANGED <<worldVars, diagVars, coordVars, threadVars, jobVars, prov,
                   parse, hook, cli>>

WalkNext ==
    \/ \E graph \in ImportGraphs : WalkStart(graph)
    \/ WalkEnter
    \/ WalkImport
    \/ WalkReturn
    \/ WalkDone

\* The traversal is sequential code: it takes its next step as long as it
\* has one.
SpecWalk == InitParse /\ [][WalkNext]_vars /\ WF_vars(WalkNext)

-----------------------------------------------------------------------------
(* Properties of the slot cache, checked under Spec. *)

\* The most recent call is a get_text that was not the identifier's first.
LaterGetText == lastOp.kind = "get_text" /\ seen[lastOp.id].nText >= 2

\* The filter in force does not exclude the identifier's backing path.
NotExcludedNow(id) ==
    ExcludeClosure(root, excluded, BackingPath(id)).tag = "Ok"

\* C1: while the backing bytes of an identifier stay unchanged, every get_text
\* after the first performs no backing read (load is not called) and returns a
\* value equal to the first call's result.
C1_CacheReuse ==
    (LaterGetText /\ ~seen[lastOp.id].changed)
        => (~lastOp.loaded /\ SameResult(lastOp.res, lastOp.prev))

\* A second get_text of a file whose bytes never changed has returned its text.
C1_Witness ==
    /\ LaterGetText
    /\ ~seen[lastOp.id].changed
    /\ lastOp.res.tag = "Ok"
    /\ SameResult(lastOp.res, decode_utf8(lastOp.nowBytes))

\* C2: when the backing bytes of an identifier changed between two get_text
\* calls, the second call returns the text decoded from the new bytes and not
\* the content the earlier call returned.
C2_FingerprintInvalidation ==
    (/\ LaterGetText
     /\ NotExcludedNow(lastOp.id)
     /\ lastOp.prevBytes # Absent
     /\ lastOp.nowBytes # Absent
     /\ lastOp.prevBytes # lastOp.nowBytes)
        => /\ SameResult(lastOp.res, decode_utf8(lastOp.nowBytes))
           /\ ~SameResult(decode_utf8(lastOp.prevBytes), decode_utf8(lastOp.nowBytes))
                  => ~SameResult(lastOp.res, lastOp.prev)

\* C3: a get_text or get_bytes of a project-local identifier whose path the
\* filter in force matches returns the Excluded error, whatever was read from
\* the identifier before the filter was installed.
C3_ExcludedNeverReadable ==
    (/\ lastOp.kind \in {"get_text", "get_bytes"}
     /\ lastOp.id.package = NoPackage
     /\ JoinVpath(lastOp.id.vpath, root).tag = "Ok"
     /\ lastOp.id.vpath \in excluded)
        => SameResult(lastOp.res, ExcludedError)

\* C4: once the filter is cleared, get_text of a project-local identifier whose
\* file exists under the project root (and was never changed) returns its
\* text, also when an earlier get_text returned the Excluded error.
C4_ReadableAfterClear ==
    (/\ lastOp.kind = "get_text"
     /\ excluded = {}
     /\ lastOp.id.package = NoPackage
     /\ lastOp.nowBytes # Absent
     /\ ~seen[lastOp.id].written)
        => SameResult(lastOp.res, decode_utf8(lastOp.nowBytes))

-----------------------------------------------------------------------------
(* Properties of the path resolver, checked under SpecResolve. *)

\* The package override applies to the identifier.
Overridden(id) == package_override # NoOverride /\ id.package = package_override.spec

\* C5: system_path of an identifier without package reference whose path
\* relative to the project root the filter matches fails with the Excluded
\* error, which is neither NotFound nor AccessDenied, and yields no path.
C5_ExcludedIsDistinctError ==
    (/\ lastOp.kind = "resolve"
     /\ lastOp.id.package = NoPackage
     /\ JoinVpath(lastOp.id.vpath, root).tag = "Ok"
     /\ StripPrefix(JoinVpath(lastOp.id.vpath, root).val, root).val \in excluded)
        => /\ SameResult(lastOp.res, ExcludedError)
           /\ lastOp.res.tag \notin {"Ok", "NotFound", "AccessDenied"}

\* An excluded local file that is on disk has been resolved.
C5_Witness ==
    /\ lastOp.kind = "resolve"
    /\ lastOp.id.package = NoPackage
    /\ lastOp.id.vpath \in excluded
    /\ FileAt(disk, installed, root \o lastOp.id.vpath) # Absent
    /\ SameResult(lastOp.res, ExcludedError)

\* C6: when the project root is the canonical directory of the identifier's
\* package and no override applies, system_path resolves below the project
\* root and does not call prepare_package.
C6_SelfReferenceIsLocal ==
    (/\ lastOp.kind = "resolve"
     /\ lastOp.id.package # NoPackage
     /\ root = CanonicalDir(lastOp.id.package)
     /\ ~Overridden(lastOp.id))
        => /\ ~lastOp.provisioned
           /\ \/ SameResult(lastOp.res, JoinVpath(lastOp.id.vpath, root))
              \/ SameResult(lastOp.res, ExcludedError)

ExcludedUnderRoot(file) ==
    /\ file.tag = "Ok"
    /\ IsPrefix(root, file.val)
    /\ SubSeq(file.val, Len(root) + 1, Len(file.val)) \in excluded

Inside(dir, path) ==
    /\ IsPrefix(dir, path)
    /\ \A i \in (Len(dir) + 1)..Len(path) : path[i] # ".."

\* Joining the virtual path would leave the directory it is joined onto: at
\* some point it has gone up more often than down.
Escapes(vpath) ==
    \E k \in 1..Len(vpath) :
        Cardinality({i \in 1..k : vpath[i] = ".."})
            > Cardinality({i \in 1..k : vpath[i] # ".."})

\* The roots system_path may join onto for an identifier.
CandidateRoots(id) ==
    IF id.package = NoPackage THEN {root}
    ELSE IF Overridden(id) THEN {package_override.dir}
    ELSE {DataDir \o Subdir(id.package), CacheDir \o Subdir(id.package),
          CanonicalDir(id.package)}

\* C8: a path system_path returns lies inside its candidate root, and an
\* identifier whose virtual path would escape that root yields AccessDenied.
C8_NoEscape ==
    lastOp.kind = "resolve"
        => /\ lastOp.res.tag = "Ok"
                  => \E r \in CandidateRoots(lastOp.id) : Inside(r, lastOp.res.val)
           /\ (lastOp.croot.tag = "Ok" /\ Escapes(lastOp.id.vpath))
                  => SameResult(lastOp.res, AccessDenied)

\* An escaping identifier of a provisioned package has been denied.
C8_Witness ==
    /\ lastOp.kind = "resolve"
    /\ lastOp.id.package = PkgQ
    /\ Escapes(lastOp.id.vpath)
    /\ lastOp.croot.tag = "Ok"
    /\ SameResult(lastOp.res, AccessDenied)

-----------------------------------------------------------------------------
(* Properties of the aggregator, checked under SpecDiag. *)

\* The label as extend must leave it.
RewrittenLabel(orig, new, prefix) ==
    IF orig.file_id.package = NoPackage
    THEN /\ new.file_id.package = NoPackage
         /\ new.file_id.vpath = VirtualPathNew(prefix \o orig.file_id.vpath)
         /\ ~Escapes(orig.file_id.vpath)
                => new.file_id.vpath = prefix \o orig.file_id.vpath
         /\ new.range = orig.range
    ELSE new = orig

RewrittenDiag(orig, new, prefix) ==
    /\ new.severity = orig.severity
    /\ new.message = orig.message
    /\ Len(new.labels) = Len(orig.labels)
    /\ \A i \in 1..Len(orig.labels) :
           RewrittenLabel(orig.labels[i], new.labels[i], prefix)

MergedInto(before, other, after, prefix) ==
    /\ Len(after) = Len(before) + Len(other)
    /\ SubSeq(after, 1, Len(before)) = before
    /\ \A i \in 1..Len(other) :
           RewrittenDiag(other[i], after[Len(before) + i], prefix)

\* C10: extend rewrites exactly the labels without package reference, to (no
\* package, prefix joined with the virtual path), copies the labels with a
\* package reference unchanged and leaves the receiving set's own
\* diagnostics as they were.
C10_ExtendRewritesLocalLabels ==
    merged.kind = "extend"
        => /\ MergedInto(merged.before.errors, merged.other.errors,
                         diags.errors, merged.prefix)
           /\ MergedInto(merged.before.warnings, merged.other.warnings,
                         diags.warnings, merged.prefix)

\* A set holding labels of both kinds has been merged into a non-empty set.
C10_Witness ==
    /\ merged.kind = "extend"
    /\ Len(merged.before.errors) > 0
    /\ Len(merged.before.warnings) > 0
    /\ Len(merged.other.errors) > 0
    /\ Len(merged.other.warnings) > 0

-----------------------------------------------------------------------------
(* Properties of the annotations, checked under SpecAnnot. *)

\* The offsets after the newline characters of a text that are not after
\* `offset`.
NewlinesUpTo(text, offset) ==
    {ByteOf(text, k + 1) : k \in {j \in 1..Len(text) :
                                     IsNewline(text[j]) /\ ByteOf(text, j + 1) <= offset}}

\* The 0-based line of an offset of a text: the newlines that end before it.
OwnLine(text, offset) == Cardinality(NewlinesUpTo(text, offset))

\* The 0-based column of an offset: the characters that start between the
\* start of its line and the offset.
OwnColumn(text, offset) ==
    Cardinality({k \in 1..Len(text) :
                    /\ ByteOf(text, k) < offset
                    /\ \A start \in NewlinesUpTo(text, offset) :
                           ByteOf(text, k) >= start})

\* The most recent call made an annotation of a label.
Annotated == coord.kind = "annotation" /\ coord.res.tag = "Ok"

AnnotatedLabel == coord.diag.val[1].labels[1]

\* C11: the path of an annotation whose label carries a package reference is
\* rooted at that package's directory packages/<namespace>/<name>/<version>,
\* not at the directory of the package under test.
C11_CrossPackageAttribution ==
    (Annotated /\ coord.id.package # NoPackage)
        => coord.res.val[1].path =
               <<"packages", coord.id.package.namespace, coord.id.package.name,
                 coord.id.package.version>> \o coord.id.vpath

\* C12: an annotation has neither column when the label's offsets lie on
\* different lines, and both columns when they lie on the same line.
C12_ColumnsBothOrNeither ==
    Annotated
        => LET a == coord.res.val[1]
               range == AnnotatedLabel.range
           IN  IF OwnLine(coord.text.val, range[1]) = OwnLine(coord.text.val, range[2])
               THEN a.start_column.tag = "Ok" /\ a.end_column.tag = "Ok"
               ELSE a.start_column.tag = "None" /\ a.end_column.tag = "None"

\* C13: the lines of an annotation are one plus the 0-based lines of the
\* label's offsets (shifted as the slot is), and its columns, when present,
\* one plus the 0-based columns of the offsets within their line.
C13_OneIndexed ==
    Annotated
        => LET a == coord.res.val[1]
               range == AnnotatedLabel.range
               text == coord.text.val
           IN  /\ a.start_line = 1 + OwnLine(text, range[1]) + coord.line
               /\ a.end_line = 1 + OwnLine(text, range[2]) + coord.line
               /\ a.start_column.tag = "Ok"
                      => a.start_column.val[1] = 1 + OwnColumn(text, range[1])
               /\ a.end_column.tag = "Ok"
                      => a.end_column.val[1] = 1 + OwnColumn(text, range[2])

\* A diagnostic of which an annotation can be made: it has a label, the text
\* of the label's identifier can be read, and both offsets lie within it.
Annotatable(d) ==
    /\ d.labels # <<>>
    /\ d.labels[1].file_id \in DOMAIN slots
    /\ LET src == Files_source(slots[d.labels[1].file_id].source.data)
       IN  /\ src.tag = "Ok"
           /\ d.labels[1].range[1] <= len_bytes(src.val)
           /\ d.labels[1].range[2] <= len_bytes(src.val)

-----------------------------------------------------------------------------
(* Properties of the coordinate mapper, checked under SpecCoord. *)

\* C14: line_index returns the text's own line of the offset plus the line
\* shift of the slot, which is 0 for an identifier that is not virtual; the
\* first line of a fragment registered with shift 41 is reported as line 42.
C14_LineShift ==
    (/\ coord.kind = "line_index"
     /\ coord.text.tag = "Ok"
     /\ coord.given <= len_bytes(coord.text.val))
        => /\ coord.res = Ok(<<OwnLine(coord.text.val, coord.given) + coord.line>>)
           /\ coord.id \notin DOMAIN virtuals => coord.line = 0
           /\ coord.id \in DOMAIN virtuals => coord.line = virtuals[coord.id]
           /\ (coord.line = 41 /\ OwnLine(coord.text.val, coord.given) = 0)
                  => StartLine(coord.res.val[1]) = 42

\* The first line of a fragment registered with shift 41 has been asked for.
C14_Witness ==
    /\ coord.kind = "line_index"
    /\ coord.id \in DOMAIN virtuals
    /\ virtuals[coord.id] = 41
    /\ coord.text.tag = "Ok"
    /\ OwnLine(coord.text.val, coord.given) = 0
    /\ coord.res = Ok(<<41>>)

\* C15: line_range returns the byte range of the text's line (line minus
\* shift), and the error for a line that is out of range, below the shift or
\* past the last line, without wrapping around and without unwinding.
C15_LineRangeChecked ==
    (coord.kind = "line_range" /\ coord.text.tag = "Ok")
        => LET text == coord.text.val
               own == coord.given - coord.line
           IN  IF own >= 0 /\ own <= OwnLine(text, len_bytes(text))
               THEN /\ coord.res.tag = "Ok"
                    /\ OwnLine(text, coord.res.val[1]) = own
                    /\ own > 0 => OwnLine(text, coord.res.val[1] - 1) = own - 1
                    /\ coord.res.val[2] =
                           IF own = OwnLine(text, len_bytes(text))
                           THEN len_bytes(text)
                           ELSE CHOOSE b \in 0..len_bytes(text) :
                                    /\ OwnLine(text, b) = own + 1
                                    /\ OwnLine(text, b - 1) = own
               ELSE /\ coord.res.tag = "LineTooLarge"
                    /\ coord.res.val[1] <= coord.given

-----------------------------------------------------------------------------
(* Properties of the slot map under concurrent calls, checked under         *)
(* SpecThreads.                                                             *)

\* The thread is in a load (the backing read and the decoding).
Loading(t) == threads[t].pc = "loading"

\* The thread called and cannot go on: another thread holds the mutex.
Blocked(t) == threads[t].pc = "waiting" /\ lock \notin {0, t}

\* C18: at no time are two loads of one identifier in progress.
C18_OneLoadPerIdentifier ==
    \A t, u \in Threads :
        (t # u /\ Loading(t) /\ Loading(u)) => threads[t].id # threads[u].id

\* One thread loads an identifier while the other has called for the same.
C18_Witness ==
    \E t, u \in Threads :
        /\ t # u
        /\ Loading(t)
        /\ threads[u].pc = "waiting"
        /\ threads[u].id = threads[t].id

\* C19: the mutex of the slot map is not held during a load, and a call for
\* an identifier never waits for the load of another identifier.
C19_LockScopeIsMapOnly ==
    /\ \A t \in Threads : Loading(t) => lock # t
    /\ \A t, u \in Threads :
           (Blocked(t) /\ Loading(u)) => threads[t].id = threads[u].id

-----------------------------------------------------------------------------
(* Properties of concurrent check jobs, checked under SpecJobs. *)

\* The job has a working tree it reads or is about to report on.
Running(j) == jobs[j].pc \in {"checking", "reported"}

\* What the checks of a job find when it runs alone.
AloneDiags == [i \in 1..MaxReads |-> "read"]

\* C20: no job deletes the directory another running job reads, and the
\* diagnostics a job reports are those it finds when it runs alone.
C20_JobsIsolated ==
    /\ \A j \in Jobs :
           jobs[j].pc \in {"reported", "done", "failed"}
               => jobs[j].diags = AloneDiags
    /\ \A j \in Jobs : Running(j) => tree[checkout_dir(jobs[j].sha)]

-----------------------------------------------------------------------------
(* Properties of the aggregator's order, checked under SpecDiag. *)

NotWarning(d) == d.severity # "Warning"

IsWarning(d) == d.severity = "Warning"

Messages(ds) == [i \in 1..Len(ds) |-> ds[i].message]

\* C16: warnings() holds the diagnostics of severity Warning and errors() all
\* the others; a call appends what it is given, in the order given, and
\* leaves the entries already there where and as they were.
C16_SeverityPartition ==
    /\ \A i \in 1..Len(diags.warnings) : IsWarning(diags.warnings[i])
    /\ \A i \in 1..Len(diags.errors) : NotWarning(diags.errors[i])
    /\ merged.kind # "none"
           => /\ SubSeq(diags.errors, 1, Len(merged.before.errors))
                     = merged.before.errors
              /\ SubSeq(diags.warnings, 1, Len(merged.before.warnings))
                     = merged.before.warnings
              /\ Messages(diags.errors)
                     = Messages(merged.before.errors)
                           \o Messages(SelectSeq(merged.items, NotWarning))
              /\ Messages(diags.warnings)
                     = Messages(merged.before.warnings)
                           \o Messages(SelectSeq(merged.items, IsWarning))

\* A note and a warning have been emitted in one call into a set that held
\* an error and a warning.
C16_Witness ==
    /\ merged.kind = "emit_many"
    /\ Len(merged.before.errors) > 0
    /\ Len(merged.before.warnings) > 0
    /\ Len(merged.items) = 2
    /\ merged.items[1].severity = "Note"
    /\ merged.items[2].severity = "Warning"

-----------------------------------------------------------------------------
(* Properties of the package provisioner. *)

\* C21: prepare_package returns the data-directory path of the package when
\* that directory exists, otherwise the cache-directory path when that one
\* exists, without a request to the network in either case; when neither
\* exists and the namespace is not "preview" it fails with NotFound, again
\* without a request.
C21_ProvisionOrder ==
    prov.res.tag # "None" =>
        /\ "data" \in prov.before =>
               /\ SameResult(prov.res, Ok(DataDir \o Subdir(prov.spec)))
               /\ ~prov.fetched
        /\ ("data" \notin prov.before /\ "cache" \in prov.before) =>
               /\ SameResult(prov.res, Ok(CacheDir \o Subdir(prov.spec)))
               /\ ~prov.fetched
        /\ (prov.before \cap {"data", "cache"} = {}
                /\ prov.spec.namespace # "preview") =>
               /\ SameResult(prov.res, PackageNotFound(prov.spec))
               /\ ~prov.fetched

\* A package found in both directories was asked for.
C21_Witness ==
    /\ prov.before = {"data", "cache"}
    /\ SameResult(prov.res, Ok(DataDir \o Subdir(prov.spec)))

\* C22: when prepare_package returns an error after the unpack started, the
\* package's cache directory does not exist as the call returns, and no call
\* returns a cache directory that holds a partial extraction.
C22_NoPartialDirectory ==
    /\ (prov.res.tag \notin {"None", "Ok"} /\ prov.unpacked) =>
           "cache" \notin prov.after
    /\ SameResult(prov.res, Ok(CacheDir \o Subdir(prov.spec))) =>
           "partial" \notin prov.after

-----------------------------------------------------------------------------
(* Properties of a webhook delivery. *)

\* The package provisioner failed while the current package was checked.
ProvisioningFailed ==
    hook.provisioning.tag \in
        {"Panic", "PackageNotFound", "NetworkFailed", "MalformedArchive"}

\* C23: a provisioning failure met while a package is checked is handed on as
\* an error value: nothing unwinds, the check ends as a fatal error, and once
\* the task has ended the package's check run is completed under the title
\* "Fatal error".
C23_ProvisioningFailureReported ==
    ProvisioningFailed =>
        /\ hook.pc \in {"fatal", "ended"}
        /\ hook.pc = "ended" /\ hook.err = "fatal" =>
               hook.runs[hook.cur] = Completed(FALSE, "Fatal error")

\* The task of the delivery is over.
HookOver == hook.pc \in {"ended", "panicked"}

\* C27: once the task of a delivery is over, whichever way it ended, no check
\* run it created is still in progress.
C27_EveryRunConcluded ==
    HookOver => \A p \in Packages : hook.runs[p].status # "in_progress"

\* C28: when the task ends with every call to git and to the API having
\* succeeded, every touched package has a completed check run and was
\* checked, whether or not the check of another package failed fatally.
C28_PackagesIndependent ==
    (hook.pc = "ended" /\ hook.err \in {"ok", "fatal"} /\ ~hook.outside) =>
        \A i \in 1..Len(hook.touched) :
            /\ hook.runs[hook.touched[i]].status = "completed"
            /\ hook.touched[i] \in hook.checked

-----------------------------------------------------------------------------
(* Properties of the two projections of a slot. *)

\* The call read the bytes that are behind its identifier.
ReadBacking ==
    /\ lastOp.loaded
    /\ lastOp.resolved.tag = "Ok"
    /\ lastOp.nowBytes # Absent

\* A buffer without its first three bytes.
AfterBom(buf) == SubSeq(buf, 4, Len(buf))

\* C24: a get_text that reads a file whose bytes start with a byte-order mark
\* returns what the bytes after that one mark decode to, a second mark
\* staying in the text as U+FEFF; bytes that are not UTF-8 give InvalidUtf8;
\* and once a get_text of an identifier returned InvalidUtf8, every later
\* get_text of it returns InvalidUtf8.
C24_OneBomStripped ==
    /\ (lastOp.kind = "get_text" /\ ReadBacking) =>
           /\ IsPrefix(Bom, lastOp.nowBytes) =>
                  SameResult(lastOp.res, FromUtf8(AfterBom(lastOp.nowBytes)))
           /\ ~IsPrefix(Bom, lastOp.nowBytes) =>
                  SameResult(lastOp.res, FromUtf8(lastOp.nowBytes))
           /\ lastOp.nowBytes = BytesBomBomB =>
                  SameResult(lastOp.res, Ok(<<65279, 98>>))
           /\ lastOp.nowBytes = BytesBad => SameResult(lastOp.res, InvalidUtf8)
    /\ (lastOp.kind = "get_text" /\ SameResult(lastOp.prev, InvalidUtf8)) =>
           SameResult(lastOp.res, InvalidUtf8)

\* A file with two byte-order marks was read as text.
C24_Witness ==
    /\ lastOp.kind = "get_text"
    /\ ReadBacking
    /\ lastOp.nowBytes = BytesBomBomB
    /\ SameResult(lastOp.res, Ok(<<65279, 98>>))

\* C25: get_bytes leaves the text cell of the slot as it was and get_text
\* leaves the bytes cell as it was; a get_bytes that reads a file returns its
\* bytes whatever the text cell holds, an InvalidUtf8 error included.
C25_ProjectionsIndependent ==
    /\ lastOp.kind = "get_bytes" =>
           /\ slots[lastOp.id].source = lastOp.prevSlot.source
           /\ ReadBacking => SameResult(lastOp.res, Ok(lastOp.nowBytes))
    /\ lastOp.kind = "get_text" =>
           slots[lastOp.id].file = lastOp.prevSlot.file

\* The bytes of a file were returned while the text cell of its slot holds
\* the decoding error.
C25_Witness ==
    /\ lastOp.kind = "get_bytes"
    /\ ReadBacking
    /\ SameResult(lastOp.res, Ok(BytesBad))
    /\ SameResult(slots[lastOp.id].source.data, InvalidUtf8)

-----------------------------------------------------------------------------
(* Properties of the check command. *)

\* The outcomes of the packages checked so far.
CliOutcomes == {cli.outcomes[i] : i \in 1..Len(cli.outcomes)}

\* The packages the command was asked to check.
CliAsked == IF cli.listed = <<>> THEN <<NoPackage>> ELSE cli.listed

\* C30: when the process exits, other than by a panic, every package given
\* was checked, the diagnostics of each package whose check returned were
\* printed, and the status is 1 if a package had an error or failed fatally,
\* 2 if there were warnings only, and 0 otherwise.
C30_AllPackagesChecked ==
    (cli.pc = "exited" /\ cli.status # PanicStatus) =>
        /\ cli.checked = CliAsked
        /\ \A i \in 1..Len(cli.checked) :
               cli.outcomes[i] # "fatal" =>
                   \E k \in 1..Len(cli.printed) : cli.printed[k] = cli.checked[i]
        /\ cli.status = IF CliOutcomes \cap {"errors", "fatal"} # {} THEN 1
                        ELSE IF "warnings" \in CliOutcomes THEN 2
                        ELSE 0

-----------------------------------------------------------------------------
(* Properties of parse_diff_tree_paths. *)

\* A line wrapped in double quotes.
IsQuoted(l) == Len(l) >= 2 /\ Head(l) = Quote /\ l[Len(l)] = Quote

\* The text between the quotes of a quoted line.
Inner(l) == SubSeq(l, 2, Len(l) - 1)

IsOctal(c) == c >= 48 /\ c <= 55

\* The text between the quotes is made of plain characters and of escapes
\* \ooo that denote a byte.
RECURSIVE WellEscaped(_)
WellEscaped(t) ==
    IF t = <<>> THEN TRUE
    ELSE IF Head(t) = Backslash
    THEN /\ Len(t) >= 4
         /\ IsOctal(t[2]) /\ IsOctal(t[3]) /\ IsOctal(t[4])
         /\ (t[2] - 48) * 64 + (t[3] - 48) * 8 + (t[4] - 48) <= 255
         /\ WellEscaped(SubSeq(t, 5, Len(t)))
    ELSE Head(t) # Quote /\ WellEscaped(Tail(t))

\* The bytes a well-escaped text denotes.
RECURSIVE Unescaped(_)
Unescaped(t) ==
    IF t = <<>> THEN <<>>
    ELSE IF Head(t) = Backslash
    THEN <<(t[2] - 48) * 64 + (t[3] - 48) * 8 + (t[4] - 48)>>
             \o Unescaped(SubSeq(t, 5, Len(t)))
    ELSE <<Head(t)>> \o Unescaped(Tail(t))

\* The lines of an output, cut at the line feeds.
RECURSIVE LinesOf(_)
LinesOf(output) ==
    IF output = <<>> THEN <<>>
    ELSE IF \E i \in 1..Len(output) : output[i] = LineFeed
    THEN LET i == CHOOSE i \in 1..Len(output) :
                      /\ output[i] = LineFeed
                      /\ \A k \in 1..(i - 1) : output[k] # LineFeed
         IN  <<SubSeq(output, 1, i - 1)>> \o LinesOf(SubSeq(output, i + 1, Len(output)))
    ELSE <<output>>

\* A line the property speaks about: not quoted at all, or quoted with a
\* well-escaped text that is UTF-8.
Plain(l) == l = <<>> \/ (Head(l) # Quote /\ l[Len(l)] # Quote)

Covered(l) ==
    \/ Plain(l)
    \/ /\ IsQuoted(l)
       /\ WellEscaped(Inner(l))
       /\ FromUtf8(Unescaped(Inner(l))).tag = "Ok"

\* The path the property gives a line.
PathOf(l) == IF IsQuoted(l) THEN Unescaped(Inner(l)) ELSE l

\* C26: for an output all of whose lines are unquoted or properly quoted,
\* parse_diff_tree_paths returns one path per line in the order of the
\* lines: the line itself when it is unquoted, and for a quoted line the
\* whole text between the quotes with every escape \ooo replaced by its byte.
C26_DiffTreePaths ==
    (parse.res.tag # "None"
        /\ \A i \in 1..Len(LinesOf(parse.input)) : Covered(LinesOf(parse.input)[i]))
    => SameResult(parse.res,
                  Ok([i \in 1..Len(LinesOf(parse.input)) |->
                         PathOf(LinesOf(parse.input)[i])]))

-----------------------------------------------------------------------------
(* Properties of the kebab-case traversal. *)

\* No file was checked more than once.
CheckedAtMostOnce ==
    walk.pc # "start" => \A f \in WalkFiles : walk.checks[f] <= 1

\* C29: whatever the import graph, cycles and repeated imports included, the
\* traversal comes to its end, and at no time has it run its checks on a
\* file more than once.
C29_TraversalTerminates == <>(walk.pc = "done") /\ []CheckedAtMostOnce

\* The traversal ended on a graph in which the entrypoint and "b" import
\* each other and "b" is imported twice.
C29_Witness ==
    /\ walk.pc = "done"
    /\ walk.graph["main"] = <<"b", "b">>
    /\ walk.graph["b"] = <<"main", "c">>
    /\ walk.checks = [f \in WalkFiles |-> 1]

=============================================================================
